---- MODULE Spec2Model ----
(***************************************************************************)
(* Model of mc_panel/servers.py: the process supervisor of one named       *)
(* server (PID file, liveness probe, start / stop / restart), together     *)
(* with the processes it launches (launch script, worker, direct java);    *)
(* of Archive/mc_panel/rcon.py: the RCON client and the server it talks    *)
(* to; of the Progress tracker of mc_panel/installers.py; and of           *)
(* mc_panel/rcon_ui.py: the log tailer, the RCON probe, the log view and   *)
(* the session that owns them, with the log files the server writes.       *)
(* Each component has its own specification (Spec, FairSpec and SpecConc;  *)
(* SpecRcon and SpecFrame; SpecProgress; SpecTail, SpecUi and SpecView;    *)
(* SpecJar); the other components stand still in it.                       *)
(*                                                                         *)
(* Environment assumptions of the model:                                   *)
(*  - file operations on the server directory succeed and                  *)
(*    subprocess.Popen succeeds (the runtime is installed);                *)
(*  - read_pid / _proc_is_running / unlink inside running() are one step;  *)
(*  - the launch scripts are the bash scripts of this repository (no       *)
(*    signal traps): a launcher that receives SIGTERM dies at once, while  *)
(*    a worker (the java server) shuts down in its own time or not at all; *)
(*  - PIDs are not reused inside one behaviour;                            *)
(*  - server.pid is absent or holds a decimal identifier (the only content *)
(*    the supervisor and the launch scripts write);                        *)
(*  - the RCON server answers a request with at most one well-formed frame *)
(*    (length field = bytes that follow, at least 10), with any requestId  *)
(*    and type; the network delivers its bytes in order, in chunks of any  *)
(*    size, and the server may close the connection at any moment, which   *)
(*    loses the bytes not yet delivered;                                   *)
(*  - a recv on a socket with bytes available returns at once with as many *)
(*    of them as were asked for; with none available it blocks until       *)
(*    bytes arrive, the peer closes (b"") or the timeout expires;          *)
(*  - the log files hold ASCII text; the server appends to them, and a     *)
(*    log may be emptied in place (": > logs/console.log" of start.sh) or  *)
(*    removed; a file removed while the tailer has it open is read as it   *)
(*    was, so the removal is taken to follow the read; the session makes   *)
(*    no other change to the files and opening an existing log succeeds;   *)
(*  - the tasks of the session run on one event loop: a task runs from one *)
(*    await to the next without any other task or the session running      *)
(*    in between, while the server (files) and the probe's worker thread   *)
(*    run at any time; inserting text into the log view does not fail;     *)
(*  - Progress computes in binary floating point; the model computes       *)
(*    exactly, on multiples of 1/Den, and for Den a power of two (8) the   *)
(*    two agree.                                                           *)
(***************************************************************************)
EXTENDS Integers, Sequences, FiniteSets, TLC

\* ───────────────────────────── bounds ─────────────────────────────
\* number of process identifiers the operating system hands out
MaxPid == 3
\* the same, in the runs that check termination
MaxPidFair == 2
\* the same, in the runs of two concurrent callers
MaxPidConc == 2
\* poll iterations that fit in the timeout of _poll_pid_or_detect (12.0 s / 0.25 s, scaled)
PollTicksPosix == 2
\* the same for the start.bat branch (8.0 s / 0.25 s, scaled)
PollTicksWin == 1
\* the numbers given to Progress and held by it are multiples of 1/Den
Den == 8
\* TAIL_BOOT_BYTES, scaled: the window of a log shown when the view opens
BootBytes == 2
\* LOG_TRIM_LIMIT, scaled: the characters the log view keeps
LogTrimLimit == 3
\* the largest size a log file grows to
MaxLog == 3
\* the longest text handed to _append in one call
MaxText == 4
\* the count at which the tailer's per-byte forwarding counter stops
SeenCap == 2
\* the most changes the server makes to the log files during one session
MaxLogEvents == 2

\* ───────────────────────────── file names ─────────────────────────────
\* A file name is a tuple of characters, so that endswith / startswith /
\* "in" / lower() / sorted() are computed, not assumed.
Alphabet == <<"-", ".", "1", "F", "_", "a", "b", "c", "d", "e", "f", "g", "h", "i", "j",
              "k", "l", "m", "n", "o", "p", "r", "s", "t", "u", "v">>

Ord(ch) == CHOOSE i \in 1..Len(Alphabet) : Alphabet[i] = ch

LowerChar(ch) == IF ch = "F" THEN "f" ELSE ch

Lower(name) == [i \in 1..Len(name) |-> LowerChar(name[i])]

StartsWith(name, pre) ==
    /\ Len(pre) <= Len(name)
    /\ \A i \in 1..Len(pre) : name[i] = pre[i]

EndsWith(name, suf) ==
    /\ Len(suf) <= Len(name)
    /\ \A i \in 1..Len(suf) : name[Len(name) - Len(suf) + i] = suf[i]

Contains(name, sub) ==
    \E k \in 0..(Len(name) - Len(sub)) : \A i \in 1..Len(sub) : name[k + i] = sub[i]

\* Python's str ordering (code point by code point, a proper prefix first)
LexLess(a, b) ==
    \/ /\ Len(a) < Len(b)
       /\ \A i \in 1..Len(a) : a[i] = b[i]
    \/ \E k \in 1..Len(a) :
          /\ k <= Len(b)
          /\ \A i \in 1..(k - 1) : a[i] = b[i]
          /\ Ord(a[k]) < Ord(b[k])

StartSh == <<"s", "t", "a", "r", "t", ".", "s", "h">>
StartBat == <<"s", "t", "a", "r", "t", ".", "b", "a", "t">>
RunSh == <<"r", "u", "n", ".", "s", "h">>
FabricLaunchJar == <<"f", "a", "b", "r", "i", "c", "-", "s", "e", "r", "v", "e", "r", "-",
                     "l", "a", "u", "n", "c", "h", ".", "j", "a", "r">>
FabricLauncherJar == <<"f", "a", "b", "r", "i", "c", "-", "s", "e", "r", "v", "e", "r", "-",
                       "l", "a", "u", "n", "c", "h", "e", "r", ".", "j", "a", "r">>
ForgeJar == <<"f", "o", "r", "g", "e", "-", "1", ".", "j", "a", "r">>
ForgeInstallerJar == <<"f", "o", "r", "g", "e", "-", "i", "n", "s", "t", "a", "l", "l", "e", "r",
                       ".", "j", "a", "r">>
ServerJar == <<"s", "e", "r", "v", "e", "r", ".", "j", "a", "r">>
PaperJar == <<"p", "a", "p", "e", "r", ".", "j", "a", "r">>
ClientJar == <<"c", "l", "i", "e", "n", "t", ".", "j", "a", "r">>
CapForgeJar == <<"F", "o", "r", "g", "e", "-", "1", ".", "j", "a", "r">>
Forge11Jar == <<"f", "o", "r", "g", "e", "-", "1", "1", ".", "j", "a", "r">>
NeoforgeJar == <<"n", "e", "o", "f", "o", "r", "g", "e", "-", "1", ".", "j", "a", "r">>
MinecraftServerJar == <<"m", "i", "n", "e", "c", "r", "a", "f", "t", "_", "s", "e", "r", "v", "e", "r",
                        ".", "j", "a", "r">>
ServerShimJar == <<"s", "e", "r", "v", "e", "r", "-", "s", "h", "i", "m", ".", "j", "a", "r">>

DotJar == <<".", "j", "a", "r">>
PrefForge == <<"f", "o", "r", "g", "e", "-">>
PrefNeoforge == <<"n", "e", "o", "f", "o", "r", "g", "e", "-">>
PrefMinecraftServer == <<"m", "i", "n", "e", "c", "r", "a", "f", "t", "_", "s", "e", "r", "v", "e", "r">>
PrefServer == <<"s", "e", "r", "v", "e", "r">>
Prefs == <<PrefForge, PrefNeoforge, PrefMinecraftServer, PrefServer>>

NoJar == <<>>

\* mutant of is_server_jar: the installer / shim / client exclusions are lost
IsServerJarAnyJar(name) == EndsWith(Lower(name), DotJar)

\* is_server_jar
IsServerJar(name) ==
    LET low == Lower(name) IN
    /\ EndsWith(low, DotJar)
    /\ ~Contains(low, <<"i", "n", "s", "t", "a", "l", "l", "e", "r">>)
    /\ ~Contains(low, <<"i", "n", "s", "t", "a", "l", "l">>)
    /\ ~Contains(low, <<"s", "h", "i", "m">>)
    /\ ~Contains(low, <<"c", "l", "i", "e", "n", "t">>)

\* mutant of the sort: the last name in order comes first
LexMax(S) == CHOOSE x \in S : \A y \in S : y = x \/ LexLess(y, x)

\* first element of sorted(S)
LexMin(S) == CHOOSE x \in S : \A y \in S : y = x \/ LexLess(x, y)

\* _find_jar over the set of file names of the server directory; NoJar is None
FindJar(dir) ==
    LET jars == {n \in dir : EndsWith(n, DotJar) /\ IsServerJar(n)}
        hit(k) == {j \in jars : StartsWith(j, Prefs[k])}
        hits == {k \in 1..Len(Prefs) : hit(k) # {}}
    IN  IF FabricLaunchJar \in dir /\ IsServerJar(FabricLaunchJar) THEN FabricLaunchJar
        ELSE IF FabricLauncherJar \in dir /\ IsServerJar(FabricLauncherJar) THEN FabricLauncherJar
        ELSE IF hits # {} THEN LexMin(hit(CHOOSE k \in hits : \A m \in hits : k <= m))
        ELSE IF jars # {} THEN LexMin(jars)
        ELSE NoJar


\* ───────────────────────────── state ─────────────────────────────
VARIABLES
    platform,   \* platform.system(): "posix" or "windows"
    files,      \* names of the files in the server directory
    pidfile,    \* server.pid: NoPid when the file is absent, else the pid it holds
    procs,      \* the process table
    nextPid,    \* next identifier the operating system hands out
    pidLimit,   \* last identifier it hands out in this run
    pc,         \* per caller: position inside the supervisor call
    call,       \* per caller: locals and history of the current (or last) call
    rcon,       \* the RconClient.command call, its socket and the server behind it
    prog,       \* the Progress tracker and what it last sent to the sink
    logs,       \* the log files of the server directory
    tail,       \* the tail_many task: position, cursors and its last read
    ui,         \* run_rcon_ui: the session, the probe task and its worker thread
    view,       \* the log view: the text it retains and the last _append
    picked,     \* the last answer of _find_jar
    setup       \* create_server: its position, its Progress and what it sent

vars == <<platform, files, pidfile, procs, nextPid, pidLimit, pc, call, rcon, prog,
          logs, tail, ui, view, picked, setup>>

\* the state of the console session, and everything but it
uiVars == <<logs, tail, ui, view>>

\* _find_jar has not been called
NoPick == [called |-> FALSE, jar |-> NoJar]

\* read_pid's "no identifier" (file absent): None, falsy like 0
NoPid == 0

Pids == 1..MaxPid

\* callers of the supervisor; the sequential specification uses SeqCallers only
Callers == {1, 2}
SeqCallers == {1}

\* A process: st is "none" (no such process), "live" or "zombie"; kind is
\* "launcher" (bash start.sh / cmd start.bat), "java" (a java process whose cwd
\* is the server directory) or "shell" (run.sh started by the wrapper); pgid is
\* the process group, which for a worker is its launcher (the session leader
\* that forked it) and for a process spawned by the supervisor is itself.
NoProc == [st |-> "none", kind |-> "none", pgid |-> NoPid, stage |-> "none", child |-> NoPid]

\* the server directories the model starts from
DirChoices ==
    { {StartSh, FabricLaunchJar, ServerJar},
      {RunSh},
      {StartBat, CapForgeJar, ForgeJar, PaperJar},
      {ForgeInstallerJar, ClientJar} }

NewCall == [op |-> "none", force |-> FALSE, pid |-> NoPid, procPid |-> NoPid,
            elapsed |-> 0, real |-> NoPid, outcome |-> "none", stopOut |-> "none",
            pidAtCheck |-> NoPid, stAtCheck |-> "absent", pidAtRet |-> NoPid,
            path |-> "none", spawnN |-> 0, confirmed |-> FALSE, scans |-> 0,
            scanFailed |-> FALSE, wrote |-> FALSE, sigs |-> <<>>, graceLive |-> FALSE,
            prev |-> <<"none", "none">>, overWorker |-> FALSE, retSt |-> "absent"]

\* ───────────────────────────── RCON framing ─────────────────────────────
\* Bytes are the numbers 0..255, texts are sequences of code points.

\* the four little-endian bytes of a number in 0 .. 2^31 - 1
UBytes(u) == <<u % 256, (u \div 256) % 256, (u \div 65536) % 256, (u \div 16777216) % 256>>

\* the number in 0 .. 2^31 - 1 that four little-endian bytes hold
UVal(b) == b[1] + 256 * b[2] + 65536 * b[3] + 16777216 * b[4]

\* struct.pack("<i", v): two's complement, little-endian
PackInt(v) == IF v >= 0 THEN UBytes(v) ELSE [i \in 1..4 |-> 255 - UBytes(-(v + 1))[i]]

\* struct.unpack("<i", b)
UnpackInt(b) ==
    IF b[4] >= 128 THEN -1 - UVal([i \in 1..4 |-> 255 - b[i]]) ELSE UVal(b)

\* str.encode("utf-8") of one code point below 65536
EncodeChar(c) ==
    IF c < 128 THEN <<c>>
    ELSE IF c < 2048 THEN <<192 + (c \div 64), 128 + (c % 64)>>
    ELSE <<224 + (c \div 4096), 128 + ((c \div 64) % 64), 128 + (c % 64)>>

RECURSIVE Encode(_)
\* str.encode("utf-8")
Encode(text) == IF text = <<>> THEN <<>> ELSE EncodeChar(Head(text)) \o Encode(Tail(text))

IsCont(b) == b \in 128..191

RECURSIVE Decode(_)
\* bytes.decode("utf-8", "ignore"): a byte that starts no complete sequence is dropped
Decode(b) ==
    IF b = <<>> THEN <<>>
    ELSE LET h == Head(b) IN
        IF h < 128 THEN <<h>> \o Decode(Tail(b))
        ELSE IF h \in 194..223 /\ Len(b) >= 2 /\ IsCont(b[2])
            THEN <<(h - 192) * 64 + (b[2] - 128)>> \o Decode(SubSeq(b, 3, Len(b)))
        ELSE IF h \in 224..239 /\ Len(b) >= 3 /\ IsCont(b[2]) /\ IsCont(b[3])
            THEN <<(h - 224) * 4096 + (b[2] - 128) * 64 + (b[3] - 128)>>
                 \o Decode(SubSeq(b, 4, Len(b)))
        ELSE Decode(Tail(b))

\* mutant of _pack: the length field counts its own four bytes as well
PackCountsPrefix(req_id, kind, body) ==
    LET data == PackInt(req_id) \o PackInt(kind) \o Encode(body) \o <<0, 0>>
    IN  PackInt(Len(data) + 4) \o data

\* _pack: length, requestId, type, payload, two NUL bytes
Pack(req_id, kind, body) ==
    LET data == PackInt(req_id) \o PackInt(kind) \o Encode(body) \o <<0, 0>>
    IN  PackInt(Len(data)) \o data

\* mutant of _recv's unpacking: only one of the two NUL bytes is cut off
RecvParseKeepsNul(data) ==
    [rid  |-> UnpackInt(SubSeq(data, 1, 4)),
     kind |-> UnpackInt(SubSeq(data, 5, 8)),
     body |-> Decode(SubSeq(data, 9, Len(data) - 1))]

\* _recv, once the declared number of bytes is in data: data[:8] and data[8:-2]
RecvParse(data) ==
    [rid  |-> UnpackInt(SubSeq(data, 1, 4)),
     kind |-> UnpackInt(SubSeq(data, 5, 8)),
     body |-> Decode(SubSeq(data, 9, Len(data) - 2))]

\* sock.recv(n) on a socket that holds buf: what is there, n bytes at most
SockRecv(buf, n) == SubSeq(buf, 1, IF n < Len(buf) THEN n ELSE Len(buf))

\* what is left in the socket after that read
SockRest(buf, n) == SubSeq(buf, (IF n < Len(buf) THEN n ELSE Len(buf)) + 1, Len(buf))

\* self.password and the commands given to command(): "p", "l", "é"
Password == <<112>>
Commands == { <<108>>, <<233>> }

\* what the server may answer: requestId, type and payload ("" and "oé")
ReplyIds == {-1, 1, 2, 7}
ReplyKinds == {0, 2}
Payloads == { <<>>, <<111, 233>> }

NoResult == [kind |-> "none", value |-> <<>>, err |-> "none"]

\* no command() call has been made
RconIdle ==
    [pc |-> "idle", phase |-> "none", conn |-> "none", conns |-> 0, cmd |-> <<>>,
     sent |-> <<>>, pending |-> <<>>, inbuf |-> <<>>, peerClosed |-> FALSE,
     ln |-> 0, data |-> <<>>, recvs |-> <<>>, replies |-> <<>>,
     result |-> NoResult]

\* ───────────────────────────── Progress state ─────────────────────────────
\* Progress.__init__: base and weight 0.0 (in units of 1/Den); op, arg and msg
\* are the last call made, its number and whether it had a message; pct is
\* the percentage last given to the sink and said tells whether the last call
\* gave one; inStage holds from a start to the next end; stageBase and
\* stageArg are base and the weight given at the last start, stageEmits the
\* emit calls since then (2 stands for two or more); prevOp, prevArg, prevPct and prevSaid are op, arg, pct and said
\* before the last call
ProgNew(sink) ==
    [base |-> 0, weight |-> 0, sink |-> sink, op |-> "init", arg |-> 0, msg |-> FALSE,
     pct |-> 0, said |-> FALSE, inStage |-> FALSE, stageBase |-> 0, stageArg |-> 0,
     stageEmits |-> 0,
     prevOp |-> "init", prevArg |-> 0, prevPct |-> 0, prevSaid |-> FALSE]

ProgIdle == ProgNew(TRUE)

\* create_server before it is called. base and weight are those of its
\* Progress, in hundredths; total and seen are download_stream's; sent lists
\* the percentages of the messages given to say, tops lists base + weight as
\* it was after each start; branch is the way taken after the pack was looked at
SetupNew ==
    [pc |-> "idle", say |-> FALSE, pack |-> FALSE, flavor |-> "vanilla",
     base |-> 0, weight |-> 0, total |-> 0, seen |-> 0,
     sent |-> <<>>, tops |-> <<>>, branch |-> "none"]

SetupIdle == SetupNew

\* ───────────────────────────── console session state ─────────────────────────────
\* "\n"
Newline == 10

\* the bytes the server writes to its logs: "a" and "\n"
LogBytes == {97, Newline}

\* d / "logs" / "console.log" and d / "logs" / "debug.log"
LogNames == {"console", "debug"}

\* paths of run_rcon_ui: console.log is listed twice
TailPaths == <<"console", "console", "debug">>

\* a log file: data is its content; seen counts, byte by byte, how often the
\* tailer has handed that byte to the sink (SeenCap stands for that often or
\* more); shrunk tells that the file was emptied or removed since the session
\* began, writes counts the changes made to it
NoLog == [exists |-> FALSE, data |-> <<>>, seen |-> <<>>, shrunk |-> FALSE, writes |-> 0]

LogWith(data) == [exists |-> TRUE, data |-> data, seen |-> [k \in 1..Len(data) |-> 0],
                  shrunk |-> FALSE, writes |-> 0]

\* no read made yet
NoRead == [kind |-> "none", file |-> "none", end |-> 0, size |-> 0, cursor |-> 0,
           from |-> 0, chunk |-> <<>>, before |-> 0]

\* tail_many as a task that has not run yet; offsets.get(p, 0) is 0 for a
\* path that has no cursor yet; missing holds the files whose priming found
\* no file, sent counts the bytes of each file handed to the sink so far
TailNew ==
    [pc |-> "new", i |-> 1, end |-> 0, offsets |-> [f \in LogNames |-> 0],
     cancelReq |-> FALSE, last |-> NoRead, missing |-> {},
     sent |-> [f \in LogNames |-> 0]]

\* run_rcon_ui after create_task(tail_many(paths)) and create_task(rcon_probe())
UiNew(enable) ==
    [main |-> "app", how |-> "none", probe |-> "new", probeCancelReq |-> FALSE,
     thread |-> "none", enable |-> enable]

\* TextArea(): empty
ViewNew == [text |-> <<>>, last |-> <<>>]

\* no console session is open
UiIdle ==
    /\ logs = [f \in LogNames |-> NoLog]
    /\ tail = TailNew
    /\ ui = UiNew(FALSE)
    /\ view = ViewNew

InitWith(limit) ==
    /\ platform \in {"posix", "windows"}
    /\ files \in DirChoices
    /\ pidfile = NoPid
    /\ procs = [p \in Pids |-> NoProc]
    /\ nextPid = 1
    /\ pidLimit = limit
    /\ pc = [c \in Callers |-> "idle"]
    /\ call = [c \in Callers |-> NewCall]
    /\ rcon = RconIdle
    /\ prog = ProgIdle
    /\ UiIdle
    /\ picked = NoPick /\ setup = SetupIdle

Init == InitWith(MaxPid)

\* ───────────────────────────── PID helpers ─────────────────────────────
Exists(p) == p \in Pids /\ procs[p].st # "none"

\* mutant of _proc_is_running: the zombie test is lost (is_running() alone)
ProcIsRunningCountsZombie(p) == p \in Pids /\ procs[p].st # "none"

\* _proc_is_running: the process exists and is not a zombie
ProcIsRunning(p) == p \in Pids /\ procs[p].st = "live"

\* read_pid
ReadPid == pidfile

\* what the PID file says about its process: "absent" (no file), or the state
\* of the process it names ("none", "live", "zombie")
PidState == IF pidfile = NoPid THEN "absent" ELSE procs[pidfile].st

\* mutant of running(): the liveness verdict is never true
RunningVerdictNever == FALSE

\* running(): the verdict, and the PID file it leaves (a stale file is unlinked)
RunningVerdict == ReadPid # NoPid /\ ProcIsRunning(ReadPid)

\* mutant of running(): the PID file is unlinked whatever the verdict
RunningPidfileAlwaysUnlinks == NoPid

RunningPidfile ==
    IF ReadPid # NoPid /\ ~ProcIsRunning(ReadPid) THEN NoPid ELSE pidfile

\* calls that have passed (or will pass) the liveness check and have not spawned yet:
\* the identifiers they will take are kept for them
PendingSpawns ==
    Cardinality({c \in Callers :
        \/ pc[c] \in {"spawn", "restart_sleep"}
        \/ pc[c] = "stop_grace" /\ call[c].op = "restart"})

\* ───────────────────────────── the launched processes ─────────────────────────────
\* start.sh: nohup ... & (the worker is forked into the launcher's group)
LauncherFork(l) ==
    /\ procs[l].st = "live" /\ procs[l].kind = "launcher" /\ procs[l].stage = "init"
    /\ nextPid + PendingSpawns <= pidLimit
    /\ \E k \in {"java", "shell"} :
          procs' = [procs EXCEPT ![l].stage = "forked", ![l].child = nextPid,
                                 ![nextPid] = [st |-> "live", kind |-> k, pgid |-> procs[l].pgid,
                                               stage |-> "none", child |-> NoPid]]
    /\ nextPid' = nextPid + 1
    /\ UNCHANGED <<platform, pidLimit, files, pidfile, pc, call>>

\* start.sh: echo $! > server.pid
LauncherWritePid(l) ==
    /\ procs[l].st = "live" /\ procs[l].kind = "launcher" /\ procs[l].stage = "forked"
    /\ pidfile' = procs[l].child
    /\ procs' = [procs EXCEPT ![l].stage = "wrote"]
    /\ UNCHANGED <<platform, pidLimit, files, nextPid, pc, call>>

\* what a process that ended is: a zombie until it is reaped; Windows keeps no zombies
DeadSt == IF platform = "windows" THEN "none" ELSE "zombie"

\* a process ends (exit 0 / exit 1 of the script, a crash, the server shutting down)
ProcExit(p) ==
    /\ procs[p].st = "live"
    /\ procs' = [procs EXCEPT ![p].st = DeadSt]
    /\ UNCHANGED <<platform, pidLimit, files, pidfile, nextPid, pc, call>>

\* the parent (or init) reaps a zombie
Reap(p) ==
    /\ procs[p].st = "zombie"
    /\ procs' = [procs EXCEPT ![p].st = "none"]
    /\ UNCHANGED <<platform, pidLimit, files, pidfile, nextPid, pc, call>>

EnvNext ==
    \E p \in Pids :
        \/ LauncherFork(p)
        \/ LauncherWritePid(p)
        \/ ProcExit(p)
        \/ Reap(p)


\* ───────────────────────────── signals ─────────────────────────────
\* os.kill(pid, sig): reaches pid if it exists (else ProcessLookupError, swallowed)
KillTargets(pid) == IF Exists(pid) THEN {pid} ELSE {}

\* os.killpg(os.getpgid(pid), sig): getpgid raises when pid is gone, and then
\* nothing is sent to the group
GroupTargets(pid) ==
    IF Exists(pid)
    THEN {q \in Pids : Exists(q) /\ procs[q].pgid = procs[pid].pgid}
    ELSE {}

\* taskkill /PID pid /T: pid and the processes it started
TreeTargets(pid) ==
    IF Exists(pid)
    THEN {q \in Pids : Exists(q) /\ (q = pid \/ procs[q].pgid = pid)}
    ELSE {}

\* mutant of the SIGTERM delivery in stop: the signal is not sent
AfterTermNotSent(ps, T) == ps

\* SIGTERM: a launcher (bash, no trap) dies; a worker decides for itself, later
AfterTerm(ps, T) ==
    [p \in Pids |-> IF p \in T /\ ps[p].st = "live" /\ ps[p].kind = "launcher"
                    THEN [ps[p] EXCEPT !.st = DeadSt] ELSE ps[p]]

\* SIGKILL, taskkill /F: every live target dies
AfterKill(ps, T) ==
    [p \in Pids |-> IF p \in T /\ ps[p].st = "live"
                    THEN [ps[p] EXCEPT !.st = DeadSt] ELSE ps[p]]

Sig(s, scope) == [sig |-> s, scope |-> scope]

\* ───────────────────────────── the supervisor ─────────────────────────────
Rest == {"idle", "done"}

\* a fresh call record; it remembers the call that came before it
Fresh(c, op) == [NewCall EXCEPT !.op = op, !.prev = <<call[c].op, call[c].outcome>>,
                                !.pidAtCheck = pidfile, !.stAtCheck = PidState]

\* start's answer when nothing can be launched
NoJarMsg == "No server jar found. Try reinstalling or check the server pack."

\* the call returns `out`; restart goes on to its settle delay after stop
Return(c, r, out, pf) ==
    IF r.op = "restart" /\ r.stopOut = "none"
    THEN /\ pc' = [pc EXCEPT ![c] = "restart_sleep"]
         /\ call' = [call EXCEPT ![c] = [r EXCEPT !.stopOut = out]]
    ELSE /\ pc' = [pc EXCEPT ![c] = "done"]
         /\ call' = [call EXCEPT ![c] = [r EXCEPT !.outcome = out, !.pidAtRet = pf]]

\* running(name)
RunningCall(c) ==
    /\ pc[c] \in Rest
    /\ pidfile' = RunningPidfile
    /\ Return(c, Fresh(c, "running"), IF RunningVerdict THEN "true" ELSE "false",
              RunningPidfile)
    /\ UNCHANGED <<platform, pidLimit, files, procs, nextPid>>

\* start: if running(name): return "Already running."
StartCheck(c) ==
    /\ \/ pc[c] \in Rest /\ nextPid + PendingSpawns <= pidLimit
       \/ pc[c] = "restart_sleep"
    /\ pidfile' = RunningPidfile
    /\ LET r == IF pc[c] = "restart_sleep"
                THEN [call[c] EXCEPT !.pidAtCheck = pidfile, !.stAtCheck = PidState]
                ELSE Fresh(c, "start")
       IN  IF RunningVerdict
           THEN Return(c, r, "Already running.", RunningPidfile)
           ELSE /\ pc' = [pc EXCEPT ![c] = "spawn"]
                /\ call' = [call EXCEPT ![c] = r]
    /\ UNCHANGED <<platform, pidLimit, files, procs, nextPid>>

\* _ensure_runner_wrapper: start.sh is written when run.sh exists and start.sh does not
DirAfterWrapper ==
    IF platform = "posix" /\ RunSh \in files /\ StartSh \notin files
    THEN files \cup {StartSh} ELSE files

\* the launch script start takes on this platform, if any
HasLaunchScript(dir) ==
    \/ platform = "posix" /\ StartSh \in dir
    \/ platform = "windows" /\ StartBat \in dir

Spawned(kind) == [st |-> "live", kind |-> kind, pgid |-> nextPid, stage |-> IF kind = "launcher" THEN "init" ELSE "none",
                  child |-> NoPid]

\* start: choose the target and Popen it (start_new_session: its own group);
\* the launch script runs under /bin/bash, or under sh when bash is missing
StartSpawn(c) ==
    /\ pc[c] = "spawn"
    /\ files' = DirAfterWrapper
    /\ IF HasLaunchScript(DirAfterWrapper)
       THEN /\ nextPid <= pidLimit
            /\ procs' = [procs EXCEPT ![nextPid] = Spawned("launcher")]
            /\ nextPid' = nextPid + 1
            /\ pc' = [pc EXCEPT ![c] = "write_pid"]
            /\ call' = [call EXCEPT ![c].procPid = nextPid, ![c].path = "script",
                                    ![c].spawnN = @ + 1]
            /\ UNCHANGED pidfile
       ELSE IF FindJar(files) = NoJar
       THEN /\ Return(c, call[c], NoJarMsg, pidfile)
            /\ UNCHANGED <<pidfile, procs, nextPid>>
       ELSE /\ nextPid <= pidLimit
            /\ procs' = [procs EXCEPT ![nextPid] = Spawned("java")]
            /\ nextPid' = nextPid + 1
            /\ pc' = [pc EXCEPT ![c] = "jar_write"]
            /\ call' = [call EXCEPT ![c].procPid = nextPid, ![c].path = "jar",
                                    ![c].spawnN = @ + 1]
            /\ UNCHANGED pidfile
    /\ UNCHANGED <<platform, pidLimit>>

\* mutant of start: nothing is recorded before polling
FirstRecordNone(r) == pidfile

\* start: "Record something immediately": the PID file gets str(proc.pid)
FirstRecord(r) == r.procPid

\* start: pid_path(d).write_text(str(proc.pid)) after the launch script was spawned
StartWritePid(c) ==
    /\ pc[c] = "write_pid"
    /\ pidfile' = FirstRecord(call[c])
    /\ pc' = [pc EXCEPT ![c] = "poll"]
    /\ call' = [call EXCEPT ![c].wrote = (FirstRecord(call[c]) = call[c].procPid),
                            ![c].overWorker = /\ pidfile # NoPid
                                              /\ pidfile = procs[call[c].procPid].child]
    /\ UNCHANGED <<platform, pidLimit, files, procs, nextPid>>

PollTicks == IF platform = "windows" THEN PollTicksWin ELSE PollTicksPosix

\* mutant of the poll loop: the elapsed time never grows
PollStuck(elapsed) == elapsed

\* time.sleep(0.25) moves the clock towards the timeout
PollAdvance(elapsed) == elapsed + 1

\* _poll_pid_or_detect: one iteration of the poll loop
StartPoll(c) ==
    /\ pc[c] = "poll"
    /\ IF ReadPid # NoPid /\ ProcIsRunning(ReadPid)
       THEN /\ pc' = [pc EXCEPT ![c] = "finish"]
            /\ call' = [call EXCEPT ![c].real = ReadPid, ![c].confirmed = TRUE]
       ELSE /\ pc' = [pc EXCEPT ![c] = IF PollAdvance(call[c].elapsed) < PollTicks
                                        THEN "poll" ELSE "scan"]
            /\ call' = [call EXCEPT ![c].elapsed = PollAdvance(@)]
    /\ UNCHANGED <<platform, pidLimit, files, pidfile, procs, nextPid>>

\* the java processes whose cwd is the server directory (zombies have no cwd)
ScanMatches == {p \in Pids : procs[p].st = "live" /\ procs[p].kind = "java"}

\* process_iter yields by ascending pid and the last match is kept
ScanBest == IF ScanMatches = {} THEN NoPid
            ELSE CHOOSE p \in ScanMatches : \A q \in ScanMatches : q <= p

\* _poll_pid_or_detect: the fallback scan; `fails` is psutil raising
StartScan(c) ==
    /\ pc[c] = "scan"
    /\ \E fails \in BOOLEAN :
          IF fails \/ ScanBest = NoPid
          THEN /\ call' = [call EXCEPT ![c].scans = @ + 1, ![c].scanFailed = fails]
               /\ UNCHANGED pidfile
          ELSE /\ pidfile' = ScanBest
               /\ call' = [call EXCEPT ![c].scans = @ + 1, ![c].real = ScanBest,
                                       ![c].confirmed = TRUE]
    /\ pc' = [pc EXCEPT ![c] = "finish"]
    /\ UNCHANGED <<platform, pidLimit, files, procs, nextPid>>

\* start: if real and real != proc.pid: pid_path(d).write_text(str(real))
AdoptReal(r) == IF r.real # NoPid /\ r.real # r.procPid THEN r.real ELSE pidfile

\* start: adopt `real`, then "Started." if (real or _proc_is_running(proc.pid))
StartFinish(c) ==
    /\ pc[c] = "finish"
    /\ LET r == call[c]
           pf == AdoptReal(r)
           launcherLive == r.real = NoPid /\ ProcIsRunning(r.procPid)
       IN  /\ pidfile' = pf
           /\ Return(c, [r EXCEPT !.confirmed = @ \/ launcherLive,
                                  !.retSt = IF pf = NoPid THEN "absent" ELSE procs[pf].st],
                     IF r.real # NoPid \/ ProcIsRunning(r.procPid)
                     THEN "Started." ELSE "Started (pid pending).", pf)
    /\ UNCHANGED <<platform, pidLimit, files, procs, nextPid>>

\* mutant of start: the direct launch records nothing
JarRecordNone(r) == pidfile

\* start, direct jar launch: the PID file gets str(proc.pid)
JarRecord(r) == r.procPid

\* start, direct jar launch: pid_path(d).write_text(str(proc.pid))
StartJarWrite(c) ==
    /\ pc[c] = "jar_write"
    /\ pidfile' = JarRecord(call[c])
    /\ pc' = [pc EXCEPT ![c] = "jar_sleep"]
    /\ call' = [call EXCEPT ![c].wrote = (JarRecord(call[c]) = call[c].procPid)]
    /\ UNCHANGED <<platform, pidLimit, files, procs, nextPid>>

\* start, direct jar launch: time.sleep(1.0); return "Started."
StartJarReturn(c) ==
    /\ pc[c] = "jar_sleep"
    /\ Return(c, call[c], "Started.", pidfile)
    /\ UNCHANGED <<platform, pidLimit, files, pidfile, procs, nextPid>>

\* stop (and the stop inside restart): read the PID file and signal
StopSignal(c, op, force) ==
    /\ pc[c] \in Rest
    /\ op = "restart" => ~force /\ nextPid + PendingSpawns <= pidLimit
    /\ LET pid == ReadPid
           r == [Fresh(c, op) EXCEPT !.force = force, !.pid = pid]
       IN  IF pid = NoPid
           THEN /\ Return(c, r, "Not running.", pidfile)
                /\ UNCHANGED procs
           ELSE IF platform = "windows"
           THEN /\ procs' = AfterKill(procs, TreeTargets(pid))
                /\ pc' = [pc EXCEPT ![c] = "stop_grace"]
                /\ call' = [call EXCEPT ![c] = [r EXCEPT !.sigs = <<Sig("KILL", "tree")>>]]
           ELSE /\ procs' = AfterTerm(procs, KillTargets(pid) \cup GroupTargets(pid))
                /\ pc' = [pc EXCEPT ![c] = "stop_grace"]
                /\ call' = [call EXCEPT ![c] = [r EXCEPT !.sigs =
                               <<Sig("TERM", "pid")>> \o
                               (IF Exists(pid) THEN <<Sig("TERM", "group")>> ELSE <<>>)]]
    /\ UNCHANGED <<platform, pidLimit, files, pidfile, nextPid>>

\* mutant of stop: the PID file is not unlinked
StopPidfileKept(r) == pidfile

\* mutant of stop: the PID file is unlinked only once the process is gone
StopPidfileIfDead(r) == IF ProcIsRunning(r.pid) THEN pidfile ELSE NoPid

\* stop: pid_path(d).unlink(missing_ok=True), whatever became of the process
StopPidfile(r) == NoPid

\* stop: after the grace sleep, escalate if asked to, unlink the PID file, return
StopFinish(c) ==
    /\ pc[c] = "stop_grace"
    /\ LET r == call[c]
           escalate == platform # "windows" /\ r.force /\ ProcIsRunning(r.pid)
       IN  /\ procs' = IF escalate
                       THEN AfterKill(procs, KillTargets(r.pid) \cup GroupTargets(r.pid))
                       ELSE procs
           /\ pidfile' = StopPidfile(r)
           /\ Return(c, [r EXCEPT !.graceLive = ProcIsRunning(r.pid),
                                  !.sigs = IF escalate
                                           THEN @ \o <<Sig("KILL", "pid"), Sig("KILL", "group")>>
                                           ELSE @],
                     "Stopped.", StopPidfile(r))
    /\ UNCHANGED <<platform, pidLimit, files, nextPid>>

\* stats: psutil.Process(pid) raises for a pid that does not exist (and the
\* exception is swallowed); p.is_running() is true for any process that
\* exists, a zombie included
StatsIsRunning(p) == Exists(p)

\* stats(name): the "running" entry of its answer; the PID file is only read
StatsCall(c) ==
    /\ pc[c] \in Rest
    /\ Return(c, Fresh(c, "stats"),
              IF ReadPid # NoPid /\ StatsIsRunning(ReadPid) THEN "true" ELSE "false", pidfile)
    /\ UNCHANGED <<platform, pidLimit, files, pidfile, procs, nextPid>>

SupNext(c) ==
    \/ RunningCall(c)
    \/ StatsCall(c)
    \/ StartCheck(c)
    \/ StartSpawn(c)
    \/ StartWritePid(c)
    \/ StartPoll(c)
    \/ StartScan(c)
    \/ StartFinish(c)
    \/ StartJarWrite(c)
    \/ StartJarReturn(c)
    \/ \E force \in BOOLEAN : StopSignal(c, "stop", force)
    \/ StopSignal(c, "restart", FALSE)
    \/ StopFinish(c)

\* ───────────────────────────── _find_jar alone ─────────────────────────────
\* the file names a server directory is made of
JarNames ==
    {StartSh, FabricLaunchJar, FabricLauncherJar, ForgeJar, Forge11Jar, CapForgeJar,
     NeoforgeJar, MinecraftServerJar, ServerJar, ServerShimJar, PaperJar,
     ForgeInstallerJar, ClientJar}

\* _find_jar(d)
FindJarCall ==
    /\ ~picked.called
    /\ picked' = [called |-> TRUE, jar |-> FindJar(files)]
    /\ UNCHANGED <<platform, files, pidfile, procs, nextPid, pidLimit, pc, call,
                   rcon, prog, uiVars, setup>>

JarInit ==
    /\ platform = "posix"
    /\ files \in SUBSET JarNames
    /\ pidfile = NoPid
    /\ procs = [p \in Pids |-> NoProc]
    /\ nextPid = 1
    /\ pidLimit = 0
    /\ pc = [c \in Callers |-> "idle"]
    /\ call = [c \in Callers |-> NewCall]
    /\ rcon = RconIdle
    /\ prog = ProgIdle
    /\ UiIdle
    /\ picked = NoPick /\ setup = SetupIdle

JarNext == FindJarCall

SpecJar == JarInit /\ [][JarNext]_vars

\* a step of the supervisor or of its processes; no RCON call and no
\* installation is in progress
EnvStep == EnvNext /\ UNCHANGED <<rcon, prog, uiVars, picked, setup>>
SupStep(c) == SupNext(c) /\ UNCHANGED <<rcon, prog, uiVars, picked, setup>>

Next == EnvStep \/ \E c \in SeqCallers : SupStep(c)

Spec == Init /\ [][Next]_vars

\* two panel processes call start for the same server at the same time, once each
StartStep(c) ==
    /\ \/ pc[c] = "idle" /\ StartCheck(c)
       \/ StartSpawn(c)
       \/ StartWritePid(c)
       \/ StartPoll(c)
       \/ StartScan(c)
       \/ StartFinish(c)
       \/ StartJarWrite(c)
       \/ StartJarReturn(c)
    /\ UNCHANGED <<rcon, prog, uiVars, picked, setup>>

ConcInit == InitWith(MaxPidConc)

ConcNext == EnvStep \/ \E c \in Callers : StartStep(c)

SpecConc == ConcInit /\ [][ConcNext]_vars

\* The supervisor's code runs on: a call that can take its next step takes it.
\* Nothing is assumed of the launched processes.
FairSpec ==
    /\ InitWith(MaxPidFair)
    /\ [][Next]_vars
    /\ \A c \in SeqCallers : WF_vars(SupStep(c))


\* ───────────────────────────── RCON client ─────────────────────────────
\* the supervisor at rest, no server directory in play
supVars == <<platform, files, pidfile, procs, nextPid, pidLimit, pc, call>>

SupIdle ==
    /\ platform = "posix"
    /\ files = {}
    /\ pidfile = NoPid
    /\ procs = [p \in Pids |-> NoProc]
    /\ nextPid = 1
    /\ pidLimit = 0
    /\ pc = [c \in Callers |-> "idle"]
    /\ call = [c \in Callers |-> NewCall]

Err(e) == [kind |-> "error", value |-> <<>>, err |-> e]
Ok(v) == [kind |-> "ok", value |-> v, err |-> "none"]

\* what one _recv call came to: a frame, or the exception it raised
RecvOk(f) == [ok |-> TRUE, err |-> "none", rid |-> f.rid, kind |-> f.kind, body |-> f.body]
RecvErr(e) == [ok |-> FALSE, err |-> e, rid |-> 0, kind |-> 0, body |-> <<>>]

\* mutant of the with statement: the socket is left as it is
WithExitKeepsOpen(conn) == conn

\* leaving the with block, by return or by exception: socket.__exit__ closes
WithExit(conn) == "closed"

\* command leaves with result res
Leave(r, res) == [r EXCEPT !.pc = "done", !.result = res, !.conn = WithExit(r.conn)]

\* mutant of _recv's exceptions: the kind command raises for a failed login
RecvRaisesPermission == "PermissionError"

\* _recv: raise ConnectionError("RCON short read") / ConnectionError("RCON closed")
RecvRaises == "ConnectionError"

\* mutant of the authentication test: no reply is taken as a failure
AuthFailedNever(rid) == FALSE

\* if rid == -1
AuthFailed(rid) == rid = -1

\* socket.create_connection: a connection, or an exception before the with
\* block is entered; s.settimeout changes nothing the model observes
RconConnect ==
    /\ rcon.pc = "idle"
    /\ \E cmd \in Commands, how \in {"open", "refused", "timeout"} :
        rcon' = IF how = "open"
                THEN [rcon EXCEPT !.pc = "send_auth", !.conn = "open", !.conns = 1, !.cmd = cmd]
                ELSE [rcon EXCEPT !.pc = "done", !.cmd = cmd,
                        !.result = Err(IF how = "refused" THEN "ConnectionError"
                                                          ELSE "TimeoutError")]
    /\ UNCHANGED <<supVars, prog, uiVars, picked, setup>>

\* s.sendall(_pack(1, 3, self.password))
RconSendAuth ==
    /\ rcon.pc = "send_auth"
    /\ rcon' = [rcon EXCEPT !.pc = "recv_len", !.phase = "auth",
                            !.sent = Append(@, Pack(1, 3, Password)),
                            !.ln = 0, !.data = <<>>]
    /\ UNCHANGED <<supVars, prog, uiVars, picked, setup>>

\* s.sendall(_pack(2, 2, cmd))
RconSendCmd ==
    /\ rcon.pc = "send_cmd"
    /\ rcon' = [rcon EXCEPT !.pc = "recv_len", !.phase = "exec",
                            !.sent = Append(@, Pack(2, 2, rcon.cmd)),
                            !.ln = 0, !.data = <<>>]
    /\ UNCHANGED <<supVars, prog, uiVars, picked, setup>>

\* _recv: raw_len = sock.recv(4), one read; fewer than 4 bytes raise
RconRecvLen ==
    /\ rcon.pc = "recv_len"
    /\ rcon.inbuf # <<>> \/ rcon.peerClosed
    /\ LET raw == SockRecv(rcon.inbuf, 4)
           r == [rcon EXCEPT !.inbuf = SockRest(rcon.inbuf, 4)]
       IN  rcon' = IF Len(raw) < 4
                   THEN Leave([r EXCEPT !.recvs = Append(@, RecvErr(RecvRaises))],
                              Err(RecvRaises))
                   ELSE [r EXCEPT !.pc = "recv_body", !.ln = UnpackInt(raw), !.data = <<>>]
    /\ UNCHANGED <<supVars, prog, uiVars, picked, setup>>

\* command, once _recv has returned frame f
AfterRecv(r, f) ==
    LET got == [r EXCEPT !.recvs = Append(@, RecvOk(f))]
    IN  IF r.phase = "auth"
        THEN IF AuthFailed(f.rid) THEN Leave(got, Err("PermissionError"))
             ELSE [got EXCEPT !.pc = "send_cmd"]
        ELSE Leave(got, Ok(f.body))

\* _recv: one turn of the while loop, chunk = sock.recv(ln - len(data)); the
\* turn that completes the frame unpacks it and returns to command
RconRecvBody ==
    /\ rcon.pc = "recv_body"
    /\ rcon.inbuf # <<>> \/ rcon.peerClosed
    /\ LET want == rcon.ln - Len(rcon.data)
           chunk == SockRecv(rcon.inbuf, want)
           r == [rcon EXCEPT !.inbuf = SockRest(rcon.inbuf, want), !.data = @ \o chunk]
       IN  rcon' = IF chunk = <<>>
                   THEN Leave([r EXCEPT !.recvs = Append(@, RecvErr(RecvRaises))],
                              Err(RecvRaises))
                   ELSE IF Len(r.data) < r.ln THEN r
                   ELSE AfterRecv(r, RecvParse(r.data))
    /\ UNCHANGED <<supVars, prog, uiVars, picked, setup>>

\* a recv that finds nothing within self.timeout raises socket.timeout
RconTimeout ==
    /\ rcon.pc \in {"recv_len", "recv_body"}
    /\ rcon.inbuf = <<>>
    /\ ~rcon.peerClosed
    /\ rcon' = Leave([rcon EXCEPT !.recvs = Append(@, RecvErr("TimeoutError"))],
                     Err("TimeoutError"))
    /\ UNCHANGED <<supVars, prog, uiVars, picked, setup>>

\* the server answers the request it has not answered yet
ServerReply ==
    /\ rcon.conn = "open"
    /\ ~rcon.peerClosed
    /\ Len(rcon.replies) < Len(rcon.sent)
    /\ \E rid \in ReplyIds, kind \in ReplyKinds, body \in Payloads :
        rcon' = [rcon EXCEPT !.replies = Append(@, [rid |-> rid, kind |-> kind, body |-> body]),
                             !.pending = @ \o Pack(rid, kind, body)]
    /\ UNCHANGED <<supVars, prog, uiVars, picked, setup>>

\* the network hands the next k bytes to the client's socket
NetDeliver ==
    /\ rcon.conn = "open"
    /\ rcon.pending # <<>>
    /\ \E k \in 1..Len(rcon.pending) :
        rcon' = [rcon EXCEPT !.inbuf = @ \o SubSeq(rcon.pending, 1, k),
                             !.pending = SubSeq(@, k + 1, Len(@))]
    /\ UNCHANGED <<supVars, prog, uiVars, picked, setup>>

\* the server closes the connection; what it had not delivered is lost
ServerClose ==
    /\ rcon.conn = "open"
    /\ ~rcon.peerClosed
    /\ rcon' = [rcon EXCEPT !.peerClosed = TRUE, !.pending = <<>>]
    /\ UNCHANGED <<supVars, prog, uiVars, picked, setup>>

RconNext ==
    \/ RconConnect
    \/ RconSendAuth
    \/ RconRecvLen
    \/ RconRecvBody
    \/ RconSendCmd
    \/ RconTimeout
    \/ ServerReply
    \/ NetDeliver
    \/ ServerClose

\* command is about to be called; nothing else is going on
RconInit == SupIdle /\ rcon = RconIdle /\ prog = ProgIdle /\ UiIdle /\ picked = NoPick /\ setup = SetupIdle

SpecRcon == RconInit /\ [][RconNext]_vars

\* ───────────────────────────── properties ─────────────────────────────
Finished(c, op) == pc[c] = "done" /\ call[c].op = op

\* C1: when the PID file names a live, non-zombie process, start returns
\* "Already running.", spawns no process and leaves the PID file as it was.
C1_AlreadyRunningNoEffect ==
    \A c \in Callers :
        call[c].op = "start" /\ call[c].stAtCheck = "live" =>
            /\ pc[c] = "done"
            /\ call[c].outcome = "Already running."
            /\ call[c].spawnN = 0
            /\ call[c].pidAtRet = call[c].pidAtCheck
            /\ call[c].pidAtRet # NoPid

C1_Witness ==
    \E c \in Callers :
        /\ Finished(c, "start") /\ call[c].stAtCheck = "live"
        /\ call[c].outcome = "Already running."

\* C2 as stated: stop on a server whose process is not running (PID file absent
\* or stale) returns "Not running." and leaves no PID file.
C2_StopNotRunningAllPriorStates ==
    \A c \in Callers :
        Finished(c, "stop") /\ call[c].stAtCheck # "live" =>
            call[c].outcome = "Not running." /\ call[c].pidAtRet = NoPid

\* C2, amended: stop on a server whose process is not running leaves no PID
\* file for every prior state of the file; it returns "Not running." when the
\* file is absent (never written, or removed by the stop before it) and
\* "Stopped." when the file is stale, so that a stop right after a stop that
\* returned "Stopped." finds no file and returns "Not running.".
C2_IdempotentStop ==
    \A c \in Callers :
        Finished(c, "stop") /\ call[c].stAtCheck # "live" =>
            /\ call[c].pidAtRet = NoPid
            /\ call[c].stAtCheck = "absent" => call[c].outcome = "Not running."
            /\ call[c].stAtCheck \in {"none", "zombie"} => call[c].outcome = "Stopped."
            /\ call[c].prev = <<"stop", "Stopped.">> =>
                   call[c].stAtCheck = "absent" /\ call[c].outcome = "Not running."

\* stop found a stale PID file (its process dead or a zombie), returned
\* "Stopped." and removed the file
C2_Witness ==
    \E c \in Callers :
        /\ Finished(c, "stop") /\ call[c].stAtCheck \in {"none", "zombie"}
        /\ call[c].pidAtCheck # NoPid
        /\ call[c].outcome = "Stopped." /\ call[c].pidAtRet = NoPid

\* C3: running(name) on a PID file naming a dead or zombie process returns
\* false and the file is gone when it returns; on a file naming a live
\* non-zombie process it returns true and the file is untouched.
C3_StaleCleanup ==
    \A c \in Callers :
        Finished(c, "running") =>
            /\ call[c].stAtCheck \in {"none", "zombie"} =>
                   call[c].outcome = "false" /\ call[c].pidAtRet = NoPid
            /\ call[c].stAtCheck = "live" =>
                   call[c].outcome = "true" /\ call[c].pidAtRet = call[c].pidAtCheck

C3_Witness ==
    \E c \in Callers :
        /\ Finished(c, "running") /\ call[c].stAtCheck = "zombie"
        /\ call[c].pidAtCheck # NoPid /\ call[c].pidAtRet = NoPid

\* C4: with a PID file holding an identifier, stop returns "Stopped." and the
\* file is absent when it returns, whether or not a signal reached anything and
\* whether or not the process is still alive; without a PID file it returns
\* "Not running." and sends no signal.
C4_StopAlwaysUnlinks ==
    \A c \in Callers :
        Finished(c, "stop") =>
            /\ call[c].pidAtCheck # NoPid =>
                   call[c].outcome = "Stopped." /\ call[c].pidAtRet = NoPid
            /\ call[c].pidAtCheck = NoPid =>
                   call[c].outcome = "Not running." /\ call[c].sigs = <<>>

\* stop returned "Stopped." while the process it signalled is still alive
C4_Witness ==
    \E c \in Callers :
        /\ Finished(c, "stop") /\ call[c].outcome = "Stopped."
        /\ call[c].pid # NoPid /\ procs[call[c].pid].st = "live"
        /\ pidfile = NoPid


\* the signals of a call before position i
SentBefore(c, i, s, scope) == \E j \in 1..(i - 1) : call[c].sigs[j] = Sig(s, scope)

\* C5 as stated: an unconditional kill is delivered only when force is true and
\* the process is still alive after the grace wait, and only after the graceful
\* signal went to the process and to its group; stop without force never
\* delivers an unconditional kill, on any platform branch.
C5_KillOnlyOnForcedEscalation ==
    \A c \in Callers :
        \A i \in 1..Len(call[c].sigs) :
            call[c].sigs[i].sig = "KILL" =>
                /\ call[c].force
                /\ SentBefore(c, i, "TERM", "pid")
                /\ SentBefore(c, i, "TERM", "group")
                /\ call[c].graceLive

\* C6 as stated: on every launch path start returns "Started." only if a live
\* identifier was confirmed during the call (poll, scan or the launcher's own
\* liveness), and a spawn without confirmation returns "Started (pid pending).".
C6_StartedOnlyIfConfirmed ==
    \A c \in Callers :
        pc[c] = "done" /\ call[c].op \in {"start", "restart"} /\ call[c].spawnN > 0 =>
            /\ call[c].outcome \in {"Started.", "Started (pid pending)."}
            /\ call[c].outcome = "Started." <=> call[c].confirmed

\* the process trees the supervisor spawned that have a live process
\* (every spawn opens a new session, so a tree is a process group)
LiveTrees == {g \in Pids : \E p \in Pids : procs[p].st = "live" /\ procs[p].pgid = g}

\* C7 as stated: at most one process tree spawned by the supervisor is alive.
C7_AtMostOneLiveTree == Cardinality(LiveTrees) <= 1

\* C7, amended: start never spawns a process while the PID file names a live,
\* non-zombie process: every spawn happens in a call whose liveness check found
\* the PID file absent or stale, and a call spawns at most once. A process that
\* is alive but no longer named by the PID file (stop removed the file before
\* the process ended, or the file named an exited launcher) does not prevent a
\* new spawn.
C7_SpawnOnlyWithoutLiveRecord ==
    \A c \in Callers :
        /\ call[c].spawnN <= 1
        /\ call[c].spawnN = 1 =>
               /\ call[c].op \in {"start", "restart"}
               /\ call[c].stAtCheck \in {"absent", "none", "zombie"}
        /\ pc[c] \in {"write_pid", "poll", "scan", "finish", "jar_write", "jar_sleep"} =>
               call[c].spawnN = 1

\* a second tree was spawned next to one that stop had signalled and that lives on
C7_Witness ==
    \E c \in Callers :
        /\ call[c].spawnN = 1 /\ call[c].stAtCheck = "absent"
        /\ call[c].prev[1] = "stop" \/ call[c].op = "restart"
        /\ Cardinality(LiveTrees) = 2

\* the server directory holds a launch script for the platform
LaunchScriptInDir ==
    \/ platform = "posix" /\ (StartSh \in files \/ RunSh \in files)
    \/ platform = "windows" /\ StartBat \in files

\* the names of the model that are runnable jars
EligibleJars ==
    {FabricLaunchJar, FabricLauncherJar, ForgeJar, Forge11Jar, CapForgeJar, NeoforgeJar,
     MinecraftServerJar, ServerJar, PaperJar}

\* C8: with no launch script for the platform and no eligible jar, start returns
\* the no-runnable-target outcome, spawns nothing, writes no PID file and does
\* not try again (no poll, no scan).
C8_NoRunnableTarget ==
    \A c \in Callers :
        /\ call[c].op = "start" /\ call[c].stAtCheck # "live" /\ pc[c] # "spawn"
              /\ ~LaunchScriptInDir /\ files \cap EligibleJars = {} =>
                 /\ pc[c] = "done"
                 /\ call[c].outcome = NoJarMsg
                 /\ call[c].spawnN = 0 /\ ~call[c].wrote
                 /\ call[c].elapsed = 0 /\ call[c].scans = 0
                 /\ call[c].pidAtRet = NoPid
        /\ call[c].outcome = NoJarMsg =>
              ~LaunchScriptInDir /\ files \cap EligibleJars = {}

C8_Witness ==
    \E c \in Callers :
        /\ Finished(c, "start") /\ call[c].outcome = NoJarMsg
        /\ ForgeInstallerJar \in files
        /\ call[c].spawnN = 0 /\ pidfile = NoPid


\* the positions of a start call after its liveness check
StartPcs == {"spawn", "write_pid", "poll", "scan", "finish", "jar_write", "jar_sleep"}

StartOutcomes == {"Already running.", "Started.", "Started (pid pending).", NoJarMsg}

\* the poll loop stops at its timeout, the scan runs at most once and only
\* after the timeout, and a failed scan still ends in an outcome of start
C9_PollBounded ==
    \A c \in Callers :
        /\ call[c].elapsed <= PollTicks
        /\ pc[c] = "poll" => call[c].elapsed < PollTicks
        /\ call[c].scans <= 1
        /\ call[c].scans = 1 \/ pc[c] = "scan" =>
               call[c].elapsed = PollTicks /\ call[c].path = "script"
        /\ pc[c] = "done" /\ call[c].scanFailed =>
               call[c].outcome \in {"Started.", "Started (pid pending)."}
        /\ pc[c] = "done" /\ call[c].op \in {"start", "restart"} =>
               call[c].outcome \in StartOutcomes

\* C9: every start call terminates with one of its outcomes: the poll loop
\* exits once its timeout has elapsed even if the PID file never names a live
\* process, the fallback scan runs at most once and only after the poll timed
\* out, and a failure of the scan does not fail the call.
C9_StartTerminates ==
    /\ []C9_PollBounded
    /\ \A c \in SeqCallers : (pc[c] \in StartPcs) ~> (pc[c] = "done")

\* the poll timed out, the scan failed, and start still returned
C9_Witness ==
    \E c \in Callers :
        /\ pc[c] = "done" /\ call[c].op = "start"
        /\ call[c].elapsed = PollTicks /\ call[c].scans = 1 /\ call[c].scanFailed
        /\ call[c].outcome = "Started (pid pending)."

\* C10: restart runs stop to completion before start begins and returns
\* start's outcome; stop leaves no PID file, so the start inside restart never
\* returns "Already running.", whatever the state before restart.
C10_RestartStopsThenStarts ==
    \A c \in Callers :
        call[c].op = "restart" =>
            /\ pc[c] \in StartPcs \cup {"restart_sleep", "done"} =>
                   call[c].stopOut \in {"Stopped.", "Not running."}
            /\ pc[c] \in StartPcs \cup {"done"} =>
                   call[c].stAtCheck = "absent" /\ call[c].pidAtCheck = NoPid
            /\ pc[c] = "restart_sleep" => pidfile = NoPid
            /\ pc[c] = "done" =>
                   call[c].outcome \in StartOutcomes \ {"Already running."}

\* restart of a live server whose process outlived the stop: a new one is started
C10_Witness ==
    \E c \in Callers :
        /\ Finished(c, "restart") /\ call[c].stopOut = "Stopped."
        /\ call[c].outcome = "Started."
        /\ call[c].pid # NoPid /\ procs[call[c].pid].st = "live"

\* ───────────────────────────── Progress ─────────────────────────────
\* the weights and ratios the callers give, in units of 1/Den: below 0.0,
\* 0.0, 0.375, 0.5, 1.0 and above 1.0
ProgArgs == {-1, 0, 3, 4, Den, Den + 1}

\* max(0.0, min(1.0, x))
Clamp01(x) == IF x > Den THEN Den ELSE IF x < 0 THEN 0 ELSE x

\* int(round(n / d)) for n >= 0: Python rounds a half to the even neighbour
PyRound(n, d) ==
    LET q == n \div d
        r == n % d
    IN  IF 2 * r < d THEN q
        ELSE IF 2 * r > d THEN q + 1
        ELSE IF q % 2 = 0 THEN q ELSE q + 1

\* mutant of emit: int() without round()
EmitPctTruncates(base, weight, ratio) ==
    (100 * (base * Den + weight * Clamp01(ratio))) \div (Den * Den)

\* emit: int(round((self.base + self.weight * max(0.0, min(1.0, ratio))) * 100))
EmitPct(base, weight, ratio) ==
    PyRound(100 * (base * Den + weight * Clamp01(ratio)), Den * Den)

\* mutant of end: the sum is not capped
EndBaseUncapped(base, weight) == base + weight

\* end: min(1.0, self.base + self.weight)
EndBase(base, weight) == IF base + weight > Den THEN Den ELSE base + weight

\* mutant of end: the weight of the stage is kept
EndWeightKept(weight) == weight

\* end: self.weight = 0.0
EndWeight(weight) == 0

\* the call just made becomes the previous one
Shift(p) == [p EXCEPT !.prevOp = p.op, !.prevArg = p.arg, !.prevPct = p.pct,
                      !.prevSaid = p.said]

\* if self.say: self.say(f"{pct}% {msg}")
Say(p, pct) == IF p.sink THEN [p EXCEPT !.pct = pct, !.said = TRUE]
               ELSE [p EXCEPT !.said = FALSE]

\* start(weight, msg): the weight is clamped; with a message, emit(0.0, msg)
ProgStart ==
    /\ \E w \in ProgArgs, msg \in BOOLEAN :
        LET p == [Shift(prog) EXCEPT !.op = "start", !.arg = w, !.msg = msg,
                                     !.weight = Clamp01(w), !.inStage = TRUE,
                                     !.stageBase = prog.base, !.stageArg = w,
                                     !.stageEmits = 0]
        IN  prog' = IF msg THEN Say(p, EmitPct(p.base, p.weight, 0))
                    ELSE [p EXCEPT !.said = FALSE]
    /\ UNCHANGED <<supVars, rcon, uiVars, picked, setup>>

\* emit(ratio, msg)
ProgEmit ==
    /\ \E ratio \in ProgArgs :
        LET p == [Shift(prog) EXCEPT !.op = "emit", !.arg = ratio, !.msg = TRUE,
                                     !.stageEmits = IF @ < 2 THEN @ + 1 ELSE @]
        IN  prog' = Say(p, EmitPct(p.base, p.weight, ratio))
    /\ UNCHANGED <<supVars, rcon, uiVars, picked, setup>>

\* end(msg): the stage is committed; with a message, the new base is reported
ProgEnd ==
    /\ \E msg \in BOOLEAN :
        LET p == [Shift(prog) EXCEPT !.op = "end", !.arg = 0, !.msg = msg,
                                     !.base = EndBase(prog.base, prog.weight),
                                     !.weight = EndWeight(prog.weight),
                                     !.inStage = FALSE]
        IN  prog' = IF msg THEN Say(p, PyRound(100 * p.base, Den))
                    ELSE [p EXCEPT !.said = FALSE]
    /\ UNCHANGED <<supVars, rcon, uiVars, picked, setup>>

ProgNext == ProgStart \/ ProgEmit \/ ProgEnd

\* Progress(say): say is a callable or None
ProgInit ==
    /\ SupIdle
    /\ rcon = RconIdle
    /\ UiIdle
    /\ picked = NoPick /\ setup = SetupIdle
    /\ \E sink \in BOOLEAN : prog = ProgNew(sink)

SpecProgress == ProgInit /\ [][ProgNext]_vars

\* ───────────────────────────── _pack and _recv alone ─────────────────────────────
\* the arguments given to _pack: requestIds and types over the whole int32
\* range, NUL-free payloads "" , "a", "oé" and "€"
FrameIds == {-2147483647 - 1, -256, -1, 0, 1, 2, 255, 256, 65536, 2147483647}
FrameKinds == {0, 2, 3}
FrameBodies == { <<>>, <<97>>, <<111, 233>>, <<8364>> }

\* _recv is called on a socket that holds the whole of _pack(rid, kind, body)
FrameInit ==
    /\ SupIdle
    /\ prog = ProgIdle
    /\ UiIdle
    /\ picked = NoPick /\ setup = SetupIdle
    /\ \E rid \in FrameIds, kind \in FrameKinds, body \in FrameBodies :
        rcon = [RconIdle EXCEPT !.pc = "recv_len", !.phase = "exec", !.conn = "open",
                                !.conns = 1,
                                !.replies = <<[rid |-> rid, kind |-> kind, body |-> body]>>,
                                !.inbuf = Pack(rid, kind, body)]

FrameNext == RconRecvLen \/ RconRecvBody

SpecFrame == FrameInit /\ [][FrameNext]_vars

\* ───────────────────────────── RCON properties ─────────────────────────────
\* the fields a frame put on the wire holds, read back from behind its length
OnWire(frame) == RecvParse(SubSeq(frame, 5, Len(frame)))

\* the ExecCommand packet (type 2) has been sent on the connection
ExecSent == \E i \in 1..Len(rcon.sent) : OnWire(rcon.sent[i]).kind = 2

\* the server's i-th reply reached command whole
Received(i) == Len(rcon.recvs) >= i /\ rcon.recvs[i].ok

\* C11: when the server's reply to the Auth packet carries requestId -1, the
\* ExecCommand packet is never sent on the connection, and once that reply has
\* been received command has failed with the permission error.
C11_AuthFailureStopsCommand ==
    (Len(rcon.replies) >= 1 /\ rcon.replies[1].rid = -1) =>
        /\ ~ExecSent
        /\ Len(rcon.sent) = 1
        /\ Received(1) => rcon.pc = "done" /\ rcon.result = Err("PermissionError")

C11_Witness ==
    /\ rcon.pc = "done"
    /\ Received(1)
    /\ rcon.replies[1].rid = -1
    /\ rcon.result.err = "PermissionError"
    /\ Len(rcon.sent) = 1

\* C12: one command call sends Auth (requestId 1, type 3) and then ExecCommand
\* (requestId 2, type 2) and nothing else; ExecCommand is sent only after a
\* complete reply to Auth has been received, and no reply is read that no
\* request is waiting for, so at most one request is outstanding; the string
\* returned is the payload of the server's reply to ExecCommand.
C12_StrictRequestReplyOrder ==
    /\ Len(rcon.sent) <= 2
    /\ Len(rcon.sent) >= 1 => OnWire(rcon.sent[1]) = [rid |-> 1, kind |-> 3, body |-> Password]
    /\ Len(rcon.sent) = 2 =>
        /\ OnWire(rcon.sent[2]) = [rid |-> 2, kind |-> 2, body |-> rcon.cmd]
        /\ Received(1)
    /\ Len(rcon.recvs) <= Len(rcon.sent)
    /\ rcon.result.kind = "ok" =>
        /\ rcon.pc = "done"
        /\ Len(rcon.sent) = 2
        /\ Len(rcon.replies) = 2
        /\ Received(2)
        /\ rcon.result.value = rcon.replies[2].body

C12_Witness ==
    /\ rcon.pc = "done"
    /\ rcon.result.kind = "ok"
    /\ rcon.result.value = <<111, 233>>
    /\ Len(rcon.sent) = 2

\* C13: whatever the sizes of the chunks in which a reply frame reaches the
\* socket, a _recv call that is neither cut off by the peer closing nor timed
\* out returns the requestId, type and payload the server framed.
C13_SplitReadsAgree ==
    \A i \in 1..Len(rcon.recvs) :
        (~rcon.peerClosed /\ rcon.recvs[i].err # "TimeoutError") =>
            /\ rcon.recvs[i].ok
            /\ rcon.recvs[i].rid = rcon.replies[i].rid
            /\ rcon.recvs[i].kind = rcon.replies[i].kind
            /\ rcon.recvs[i].body = rcon.replies[i].body

\* C14: command goes on after the reply to Auth only when that reply carries
\* requestId 1, and returns the payload of a reply only when that reply
\* carries requestId 2.
C14_ReplyIdMatchesRequest ==
    /\ Len(rcon.sent) = 2 => rcon.recvs[1].rid = 1
    /\ rcon.result.kind = "ok" => rcon.recvs[2].rid = 2

\* C15: when command has returned or raised, on every exit path (payload
\* returned, authentication failure, short read or peer close, timeout), the
\* connection it opened is closed; a call whose connect failed has none; a
\* socket is open only while the call is inside the with block.
C15_ConnectionClosedOnExit ==
    /\ rcon.pc = "done" =>
        /\ rcon.result.kind \in {"ok", "error"}
        /\ rcon.conn = IF rcon.conns = 1 THEN "closed" ELSE "none"
    /\ rcon.conn = "open" => rcon.pc \in {"send_auth", "recv_len", "recv_body", "send_cmd"}
    /\ rcon.conns <= 1

C15_Witness ==
    /\ rcon.pc = "done"
    /\ rcon.result.err = "TimeoutError"
    /\ Len(rcon.recvs) = 2
    /\ rcon.conns = 1
    /\ rcon.conn = "closed"

\* C16: when the server closes the connection before the frame command is
\* reading is complete, command fails with the connection error, which is not
\* the permission error of a failed login; it has opened one connection only
\* (no retry) and has sent no packet after the one whose reply was cut.
C16_CutReplyIsConnectionError ==
    (Len(rcon.recvs) >= 1 /\ rcon.peerClosed /\ ~rcon.recvs[Len(rcon.recvs)].ok) =>
        /\ rcon.pc = "done"
        /\ rcon.result = Err("ConnectionError")
        /\ rcon.result.err # "PermissionError"
        /\ rcon.conns = 1
        /\ Len(rcon.sent) = Len(rcon.recvs)

C16_Witness ==
    /\ rcon.pc = "done"
    /\ rcon.peerClosed
    /\ rcon.phase = "exec"
    /\ Len(rcon.data) > 0
    /\ Len(rcon.data) < rcon.ln
    /\ rcon.result.err = "ConnectionError"

\* C17: the frame _pack makes of a requestId, a type and a NUL-free payload
\* has a length field equal to the number of bytes that follow it, which is
\* the number of payload bytes plus 10, and _recv reading that frame returns
\* the same requestId, type and payload.
C17_PackRecvRoundTrip ==
    LET arg == rcon.replies[1] IN
    /\ rcon.pc \in {"recv_len", "recv_body", "done"}
    /\ rcon.pc = "recv_len" =>
        /\ UnpackInt(SubSeq(rcon.inbuf, 1, 4)) = Len(rcon.inbuf) - 4
        /\ Len(rcon.inbuf) - 4 = Len(Encode(arg.body)) + 10
    /\ rcon.pc = "recv_body" =>
        /\ rcon.ln = Len(rcon.inbuf)
        /\ rcon.ln = Len(Encode(arg.body)) + 10
    /\ rcon.pc = "done" =>
        /\ rcon.inbuf = <<>>
        /\ Len(rcon.recvs) = 1
        /\ rcon.recvs[1].ok
        /\ rcon.recvs[1].rid = arg.rid
        /\ rcon.recvs[1].kind = arg.kind
        /\ rcon.recvs[1].body = arg.body

C17_Witness ==
    /\ rcon.pc = "done"
    /\ rcon.recvs[1].ok
    /\ rcon.recvs[1].rid = -256
    /\ rcon.recvs[1].kind = 3
    /\ rcon.recvs[1].body = <<111, 233>>
    /\ rcon.ln = 13

\* ───────────────────────────── Progress properties ─────────────────────────────
\* C18: inside one stage, an emit whose ratio is not below the ratio of the
\* emit before it (or that follows the emit(0.0) of start) sends a percentage
\* that is not below the one sent before it; and after end, base is the base
\* the stage started from plus the weight given to start clamped to [0, 1],
\* capped at 1.0.
C18_StageMonotone ==
    /\ (prog.op = "emit" /\ prog.said /\ prog.prevSaid /\ prog.inStage
            /\ \/ prog.prevOp = "emit" /\ prog.prevArg <= prog.arg
               \/ prog.prevOp = "start")
        => prog.prevPct <= prog.pct
    /\ prog.op = "end" =>
        LET w == IF prog.stageArg < 0 THEN 0
                 ELSE IF prog.stageArg > Den THEN Den ELSE prog.stageArg
            sum == prog.stageBase + w
        IN  prog.base = IF sum > Den THEN Den ELSE sum

C18_Witness ==
    /\ prog.op = "end"
    /\ prog.prevOp = "emit"
    /\ prog.stageEmits = 2
    /\ prog.prevPct > 100
    /\ prog.stageBase = 6
    /\ prog.stageArg = Den + 1
    /\ prog.base = Den

\* C19: the percentage emit(ratio) sends to the sink is
\* round((base + weight * r) * 100), a half going to the even neighbour, with
\* r the ratio clamped to [0, 1] and weight the argument of the last start
\* clamped to [0, 1] (0 when no stage is open); a ratio below 0 gives the
\* percentage of ratio 0 and a ratio above 1 the percentage of ratio 1.
C19_EmitFormula ==
    (prog.op = "emit" /\ prog.said) =>
        LET w == IF ~prog.inStage \/ prog.stageArg < 0 THEN 0
                 ELSE IF prog.stageArg > Den THEN Den ELSE prog.stageArg
            r == IF prog.arg < 0 THEN 0 ELSE IF prog.arg > Den THEN Den ELSE prog.arg
            twice == 2 * 100 * (prog.base * Den + w * r)
            unit == 2 * Den * Den
        IN  /\ prog.weight = w
            /\ (2 * prog.pct - 1) * Den * Den <= twice
            /\ twice <= (2 * prog.pct + 1) * Den * Den
            /\ (twice % unit = Den * Den) => prog.pct % 2 = 0
            /\ prog.arg < 0 => prog.pct = PyRound(100 * prog.base, Den)
            /\ prog.arg > Den => prog.pct = PyRound(100 * (prog.base + w), Den)

C19_Witness ==
    /\ prog.op = "emit"
    /\ prog.said
    /\ prog.inStage
    /\ prog.base = 3
    /\ prog.weight = 4
    /\ prog.arg = 4
    /\ prog.pct = 62

\* C20: a call of emit changes neither base nor weight, whatever the ratio;
\* base changes in a call of end only, and end leaves weight 0; an emit made
\* after an end and before the next start sends round(base * 100), the
\* committed base, whatever the ratio.
C20_EmitIsReadOnly ==
    [][ /\ prog'.op = "emit" => prog'.base = prog.base /\ prog'.weight = prog.weight
        /\ prog'.base # prog.base => prog'.op = "end"
        /\ prog'.op = "end" => prog'.weight = 0
        /\ (prog.op \in {"end", "emit"} /\ ~prog.inStage /\ prog'.op = "emit" /\ prog'.said)
            => /\ 2 * Den * prog'.pct - Den <= 2 * 100 * prog.base
               /\ 2 * 100 * prog.base <= 2 * Den * prog'.pct + Den
               /\ ((2 * 100 * prog.base) % (2 * Den) = Den) => prog'.pct % 2 = 0
      ]_vars

C20_Witness ==
    /\ prog.op = "emit"
    /\ prog.prevOp = "end"
    /\ ~prog.inStage
    /\ prog.said
    /\ prog.arg = Den
    /\ prog.weight = 0
    /\ prog.base = 3
    /\ prog.pct = 38

\* ───────────────────────────── mc_panel/rcon_ui.py: the log view ─────────────────────────────
\* stand-ins for the fixed texts of rcon_probe
HintMsg == <<104>>
ConnectedMsg == <<99>>
ListMsg == <<108>>
FailMsg == <<120>>

\* mutant of _append: the trim keeps the oldest characters
ViewAppendKeepsHead(v, text) ==
    LET inserted == v.text \o text
    IN [text |-> IF Len(inserted) > LogTrimLimit THEN SubSeq(inserted, 1, LogTrimLimit)
                 ELSE inserted,
        last |-> text]

\* _append: insert_text at the cursor, which is always the end of the text,
\* then buf.text[-LOG_TRIM_LIMIT:] when the text is longer than the limit
ViewAppend(v, text) ==
    LET inserted == v.text \o text
        n == Len(inserted)
    IN [text |-> IF n > LogTrimLimit THEN SubSeq(inserted, n - LogTrimLimit + 1, n)
                 ELSE inserted,
        last |-> text]

\* the characters of the texts handed to _append: those of the logs, and "$"
ViewChars == LogBytes \cup {36}

\* the texts handed to _append
ViewTexts == UNION {[1..k -> ViewChars] : k \in 0..MaxText}

\* one call _append(app, log, text), from the tailer, the probe or the Enter handler
ViewCall(text) ==
    /\ view' = ViewAppend(view, text)
    /\ UNCHANGED <<supVars, rcon, prog, picked, setup, logs, tail, ui>>

ViewInit ==
    /\ SupIdle
    /\ rcon = RconIdle
    /\ prog = ProgIdle
    /\ picked = NoPick /\ setup = SetupIdle
    /\ UiIdle

ViewNext == \E text \in ViewTexts : ViewCall(text)

SpecView == ViewInit /\ [][ViewNext]_vars

\* ───────────────────────────── mc_panel/rcon_ui.py: tail_many ─────────────────────────────
\* the bytes (from, to] of a file are handed to the sink once more
Mark(seen, from, to) ==
    [k \in 1..Len(seen) |->
        IF k > from /\ k <= to /\ seen[k] < SeenCap THEN seen[k] + 1 ELSE seen[k]]

\* mutant of the priming seek: readline is skipped
AfterLineKeepsPartial(data, start) == start

\* f.seek(start); f.readline(); f.tell(): the offset after the first line
\* terminator at or after start, the end of the file when there is none
AfterLine(data, start) ==
    LET nls == {k \in (start + 1)..Len(data) : data[k] = Newline}
    IN IF nls # {} THEN CHOOSE k \in nls : \A m \in nls : k <= m
       ELSE IF start < Len(data) THEN Len(data)
       ELSE start

\* f.seek(pos); f.read(): everything from pos to the end, nothing past the end
ReadFrom(data, pos) == SubSeq(data, pos + 1, Len(data))

\* mutant of the boot window: the window is one byte longer
BootStartLate(end) == IF end - BootBytes - 1 > 0 THEN end - BootBytes - 1 ELSE 0

\* max(0, end - TAIL_BOOT_BYTES)
BootStart(end) == IF end - BootBytes > 0 THEN end - BootBytes ELSE 0

\* mutant of the follow cursor: the new cursor is the old one plus one
TellAfterReadOne(data, pos) == pos + 1

\* f.tell() after f.seek(pos); f.read() returned data
TellAfterRead(data, pos) == Len(data)

\* mutant of the cursor of a missing file: it starts at 1
MissingCursorOne(p) == 1

\* except FileNotFoundError: offsets[p] = 0
MissingCursor(p) == 0

\* the for loops of tail_many: the next path, or the next phase after the last
TailAdvance(t) ==
    IF t.i < Len(TailPaths) THEN [t EXCEPT !.i = t.i + 1, !.pc = IF t.pc = "follow" THEN "follow" ELSE "prime"]
    ELSE IF t.pc = "follow" THEN [t EXCEPT !.i = 1, !.pc = "sleep"]
    ELSE [t EXCEPT !.i = 1, !.pc = "follow"]

\* the event loop is free: tail_many is not between two awaits
AtAwait == tail.pc \in {"new", "sleep", "cancelled"}

\* the task starts to run
TailStart ==
    /\ tail.pc = "new"
    /\ ~tail.cancelReq
    /\ tail' = [tail EXCEPT !.pc = "prime", !.i = 1]
    /\ UNCHANGED <<supVars, rcon, prog, picked, setup, logs, ui, view>>

\* priming, first half: open, seek to the end, tell; a missing file gets cursor 0
TailPrimeOpen ==
    /\ tail.pc = "prime"
    /\ LET p == TailPaths[tail.i] IN
        IF logs[p].exists
        THEN tail' = [tail EXCEPT !.pc = "prime_read", !.end = Len(logs[p].data)]
        ELSE tail' = TailAdvance([tail EXCEPT !.offsets[p] = MissingCursor(p), !.missing = @ \cup {p},
                                   !.last = [NoRead EXCEPT !.kind = "prime_missing", !.file = p]])
    /\ UNCHANGED <<supVars, rcon, prog, picked, setup, logs, ui, view>>

\* priming, second half: seek to the window, drop the partial line, read to the
\* end, hand the chunk to the sink, cursor := the end measured before
TailPrimeRead ==
    /\ tail.pc = "prime_read"
    /\ LET p == TailPaths[tail.i]
           data == logs[p].data
           start == BootStart(tail.end)
           pos == IF start > 0 THEN AfterLine(data, start) ELSE start
           chunk == ReadFrom(data, pos)
       IN /\ view' = IF chunk # <<>> THEN ViewAppend(view, Decode(chunk)) ELSE view
          /\ logs' = [logs EXCEPT ![p].seen = Mark(@, pos, Len(data))]
          /\ tail' = TailAdvance([tail EXCEPT
                        !.offsets[p] = tail.end, !.end = 0, !.missing = @ \ {p},
                        !.sent[p] = @ + Len(chunk),
                        !.last = [kind |-> "prime", file |-> p, end |-> tail.end,
                                  size |-> Len(data), cursor |-> 0, from |-> pos,
                                  chunk |-> chunk,
                                  before |-> IF pos > 0 /\ pos <= Len(data) THEN data[pos] ELSE 0]])
    /\ UNCHANGED <<supVars, rcon, prog, picked, setup, ui>>

\* one path of the follow loop: open, seek to the cursor, read; when something
\* was read the cursor becomes f.tell() and the data goes to the sink; a
\* missing file is passed over
TailFollow ==
    /\ tail.pc = "follow"
    /\ LET p == TailPaths[tail.i]
           data == logs[p].data
           cursor == tail.offsets[p]
           chunk == ReadFrom(data, cursor)
       IN IF ~logs[p].exists
          THEN /\ tail' = TailAdvance([tail EXCEPT
                            !.last = [NoRead EXCEPT !.kind = "follow_missing", !.file = p,
                                                    !.cursor = cursor]])
               /\ UNCHANGED <<logs, view>>
          ELSE /\ view' = IF chunk # <<>> THEN ViewAppend(view, Decode(chunk)) ELSE view
               /\ logs' = [logs EXCEPT ![p].seen = Mark(@, cursor, Len(data))]
               /\ tail' = TailAdvance([tail EXCEPT
                            !.offsets[p] = IF chunk # <<>> THEN TellAfterRead(data, cursor) ELSE @,
                            !.sent[p] = @ + Len(chunk),
                            !.last = [kind |-> "follow", file |-> p, end |-> 0,
                                      size |-> Len(data), cursor |-> cursor, from |-> cursor,
                                      chunk |-> chunk, before |-> 0]])
    /\ UNCHANGED <<supVars, rcon, prog, picked, setup, ui>>

\* asyncio.sleep(TAIL_POLL) is over
TailWake ==
    /\ tail.pc = "sleep"
    /\ ~tail.cancelReq
    /\ tail' = [tail EXCEPT !.pc = "follow", !.i = 1]
    /\ UNCHANGED <<supVars, rcon, prog, picked, setup, logs, ui, view>>

\* CancelledError is raised in the task where it waits (or before it ran)
TailTakeCancel ==
    /\ tail.cancelReq
    /\ tail.pc \in {"new", "sleep"}
    /\ tail' = [tail EXCEPT !.pc = "cancelled"]
    /\ UNCHANGED <<supVars, rcon, prog, picked, setup, logs, ui, view>>

TailStep == TailStart \/ TailPrimeOpen \/ TailPrimeRead \/ TailFollow \/ TailWake \/ TailTakeCancel

\* ───────────────────────────── the server writing its logs ─────────────────────────────
\* the file is open in tail_many between the two halves of priming
HeldOpen(f) == tail.pc = "prime_read" /\ TailPaths[tail.i] = f

\* the server may still change a file
MayWrite == logs["console"].writes + logs["debug"].writes < MaxLogEvents

LogAppend(f, b) ==
    /\ MayWrite
    /\ logs[f].exists
    /\ Len(logs[f].data) < MaxLog
    /\ logs' = [logs EXCEPT ![f].data = Append(@, b), ![f].seen = Append(@, 0),
                            ![f].writes = @ + 1]
    /\ UNCHANGED <<supVars, rcon, prog, picked, setup, tail, ui, view>>

LogCreate(f) ==
    /\ MayWrite
    /\ ~logs[f].exists
    /\ logs' = [logs EXCEPT ![f].exists = TRUE, ![f].writes = @ + 1]
    /\ UNCHANGED <<supVars, rcon, prog, picked, setup, tail, ui, view>>

\* ": > logs/console.log" of start.sh, or a rotation that empties in place
LogTruncate(f) ==
    /\ MayWrite
    /\ logs[f].exists
    /\ logs[f].data # <<>>
    /\ logs' = [logs EXCEPT ![f] = [exists |-> TRUE, data |-> <<>>, seen |-> <<>>, shrunk |-> TRUE,
                                    writes |-> @.writes + 1]]
    /\ UNCHANGED <<supVars, rcon, prog, picked, setup, tail, ui, view>>

LogRemove(f) ==
    /\ MayWrite
    /\ logs[f].exists
    /\ ~HeldOpen(f)
    /\ logs' = [logs EXCEPT ![f] = [NoLog EXCEPT !.shrunk = TRUE, !.writes = logs[f].writes + 1]]
    /\ UNCHANGED <<supVars, rcon, prog, picked, setup, tail, ui, view>>

LogStep ==
    \E f \in LogNames :
        \/ \E b \in LogBytes : LogAppend(f, b)
        \/ LogCreate(f)
        \/ LogTruncate(f)
        \/ LogRemove(f)

\* ───────────────────────────── mc_panel/rcon_ui.py: run_rcon_ui and rcon_probe ─────────────────────────────
\* mutant of Task.cancel: a task is cancelled only while it sleeps
CancelAskedSleeping(state, asked) == asked \/ state = "sleep"

\* Task.cancel(): nothing to do for a task that is done
CancelAsked(state, asked) == asked \/ state \notin {"done", "cancelled"}

\* app.run_async() ends (the user leaves, or the application raises), then
\* finally: for t in (tail_task, probe_task): t.cancel(), up to the first await
UiAppEnds(how) ==
    /\ ui.main = "app"
    /\ AtAwait
    /\ tail' = [tail EXCEPT !.cancelReq = CancelAsked(tail.pc, @)]
    /\ ui' = [ui EXCEPT !.main = "await_tail", !.how = how,
                        !.probeCancelReq = CancelAsked(ui.probe, @)]
    /\ UNCHANGED <<supVars, rcon, prog, picked, setup, logs, view>>

\* with suppress(CancelledError): await tail_task
UiAwaitTail ==
    /\ ui.main = "await_tail"
    /\ tail.pc = "cancelled"
    /\ ui' = [ui EXCEPT !.main = "await_probe"]
    /\ UNCHANGED <<supVars, rcon, prog, picked, setup, logs, tail, view>>

\* with suppress(CancelledError): await probe_task; run_rcon_ui returns
UiAwaitProbe ==
    /\ ui.main = "await_probe"
    /\ ui.probe \in {"done", "cancelled"}
    /\ ui' = [ui EXCEPT !.main = "returned"]
    /\ UNCHANGED <<supVars, rcon, prog, picked, setup, logs, tail, view>>

\* rcon_probe runs to its first await: the hint and the end when RCON is off,
\* else client.command("list") is handed to a worker thread
ProbeStart ==
    /\ ui.probe = "new"
    /\ ~ui.probeCancelReq
    /\ AtAwait
    /\ IF ui.enable
       THEN /\ ui' = [ui EXCEPT !.probe = "waiting", !.thread = "running"]
            /\ view' = view
       ELSE /\ ui' = [ui EXCEPT !.probe = "done"]
            /\ view' = ViewAppend(view, HintMsg)
    /\ UNCHANGED <<supVars, rcon, prog, picked, setup, logs, tail>>

\* client.command("list") returns in the worker thread, or raises
ThreadFinish(result) ==
    /\ ui.thread = "running"
    /\ ui' = [ui EXCEPT !.thread = result]
    /\ UNCHANGED <<supVars, rcon, prog, picked, setup, logs, tail, view>>

\* the probe goes on after to_thread: the connected line and the reply, or the
\* cannot-connect line
ProbeResume ==
    /\ ui.probe = "waiting"
    /\ ui.thread \in {"ok_empty", "ok_text", "error"}
    /\ ~ui.probeCancelReq
    /\ AtAwait
    /\ ui' = [ui EXCEPT !.probe = "done"]
    /\ view' = IF ui.thread = "error" THEN ViewAppend(view, FailMsg)
               ELSE IF ui.thread = "ok_text"
                    THEN ViewAppend(ViewAppend(view, ConnectedMsg), ListMsg)
               ELSE ViewAppend(view, ConnectedMsg)
    /\ UNCHANGED <<supVars, rcon, prog, picked, setup, logs, tail>>

\* CancelledError is raised in the probe where it waits (or before it ran);
\* except Exception does not catch it
ProbeTakeCancel ==
    /\ ui.probeCancelReq
    /\ ui.probe \in {"new", "waiting"}
    /\ AtAwait
    /\ ui' = [ui EXCEPT !.probe = "cancelled"]
    /\ UNCHANGED <<supVars, rcon, prog, picked, setup, logs, tail, view>>

SessionEnd == \E how \in {"exit", "exception"} : UiAppEnds(how)

\* rcon_probe and its worker thread
ProbeStep ==
    \/ ProbeStart
    \/ \E result \in {"ok_empty", "ok_text", "error"} : ThreadFinish(result)
    \/ ProbeResume
    \/ ProbeTakeCancel

\* the two awaits of the finally block
UiAwait == UiAwaitTail \/ UiAwaitProbe

\* the files a session may find when it opens
BootLogs ==
    {<<>>, <<97>>, <<97, Newline>>, <<97, Newline, 97>>, <<97, 97, 97>>, <<Newline, 97, Newline>>}

TailInit ==
    /\ SupIdle
    /\ rcon = RconIdle
    /\ prog = ProgIdle
    /\ picked = NoPick /\ setup = SetupIdle
    /\ \E c \in {NoLog} \cup {LogWith(d) : d \in BootLogs}, g \in {NoLog, LogWith(<<97, Newline>>)} :
          logs = [f \in LogNames |-> IF f = "console" THEN c ELSE g]
    /\ tail = TailNew
    /\ ui = UiNew(FALSE)
    /\ view = ViewNew

TailNext == TailStep \/ LogStep \/ SessionEnd

SpecTail == TailInit /\ [][TailNext]_vars

\* the event loop runs a task that is ready
SpecTailFair == SpecTail /\ WF_vars(TailStep)

\* the session with both tasks, over log files that stand still
UiInit ==
    /\ SupIdle
    /\ rcon = RconIdle
    /\ prog = ProgIdle
    /\ picked = NoPick /\ setup = SetupIdle
    /\ \E c \in {NoLog, LogWith(<<97, Newline, 97>>)}, g \in {NoLog, LogWith(<<97, Newline>>)} :
          logs = [f \in LogNames |-> IF f = "console" THEN c ELSE g]
    /\ tail = TailNew
    /\ \E enable \in BOOLEAN : ui = UiNew(enable)
    /\ view = ViewNew

UiNext == TailStep \/ ProbeStep \/ SessionEnd \/ UiAwait

SpecUi == UiInit /\ [][UiNext]_vars

\* the event loop runs every task that is ready, the session included; the
\* worker thread may never return
SpecUiFair ==
    SpecUi /\ WF_vars(TailStep) /\ WF_vars(ProbeStart \/ ProbeResume \/ ProbeTakeCancel)
           /\ WF_vars(UiAwait)

\* ───────────────────────────── properties of tail_many ─────────────────────────────
\* C21: priming window. When the file measured at priming is larger than the
\* boot window, the chunk handed to the sink begins no earlier than the
\* window (offset end - BootBytes) and, when it is not empty, right after a
\* line terminator; when the file is no larger than the window, the chunk
\* begins at offset 0 and is the whole file. In both cases the chunk runs to
\* the end of the file and is what the view received.
C21_PrimingWindow ==
    tail.last.kind = "prime" =>
        /\ tail.last.end > BootBytes =>
              /\ tail.last.from >= tail.last.end - BootBytes
              /\ tail.last.chunk # <<>> => tail.last.before = Newline
        /\ tail.last.end <= BootBytes =>
              /\ tail.last.from = 0
              /\ Len(tail.last.chunk) = tail.last.size
        /\ tail.last.from <= tail.last.size => Len(tail.last.chunk) = tail.last.size - tail.last.from
        /\ tail.last.chunk # <<>> => view.last = Decode(tail.last.chunk)

\* a file larger than the window was primed and a chunk went to the sink
C21_Witness ==
    /\ tail.last.kind = "prime"
    /\ tail.last.end > BootBytes
    /\ tail.last.chunk # <<>>
    /\ tail.last.from > 0

\* C22: after the follow loop has visited a file that is missing, or shorter
\* than the stored cursor, the cursor of that file is 0.
C22_CursorResetOnShrink ==
    /\ tail.last.kind = "follow_missing" => tail.offsets[tail.last.file] = 0
    /\ (tail.last.kind = "follow" /\ tail.last.size < tail.last.cursor) =>
            tail.offsets[tail.last.file] = 0

\* tail_many is in its follow loop
Following == tail.pc \in {"follow", "sleep"}

\* file f, only appended to so far, has bytes at or after the cursor
Unread(f) ==
    /\ Following
    /\ logs[f].exists
    /\ ~logs[f].shrunk
    /\ Len(logs[f].data) > tail.offsets[f]

\* C23: for a file that was only appended to, (1) a follow read leaves the
\* cursor at the old cursor plus the number of bytes read, which is the size
\* of the file read, and what was read is what the view received; (2) no
\* step lowers the cursor, and a step of the follow loop moves it by exactly
\* the number of bytes it hands to the sink, so a task cancelled at its await
\* has forwarded everything below the cursor it moved; (3) when there are bytes
\* at or after the cursor, the cursor later reaches the end of the file as
\* it is then (and so passes them), unless the session ends first.
C23_AppendOnlyCursor ==
    /\ [](tail.last.kind = "follow" /\ ~logs[tail.last.file].shrunk =>
            /\ tail.offsets[tail.last.file] = tail.last.cursor + Len(tail.last.chunk)
            /\ tail.offsets[tail.last.file] = tail.last.size
            /\ tail.last.chunk # <<>> => view.last = Decode(tail.last.chunk))
    /\ [][\A f \in LogNames : ~logs'[f].shrunk =>
            /\ tail'.offsets[f] >= tail.offsets[f]
            /\ tail.pc = "follow" =>
                  tail'.offsets[f] - tail.offsets[f] = tail'.sent[f] - tail.sent[f]]_vars
    /\ \A f \in LogNames :
            Unread(f) ~> (tail.offsets[f] = Len(logs[f].data) \/ logs[f].shrunk \/ tail.cancelReq)

\* the follow loop read two bytes appended to a file that never shrank
C23_Witness ==
    /\ tail.last.kind = "follow"
    /\ ~logs[tail.last.file].shrunk
    /\ tail.last.cursor > 0
    /\ Len(tail.last.chunk) = 2

\* file f was missing whenever priming looked for it and has not been removed
\* or emptied since
CameLate(f) == f \in tail.missing /\ ~logs[f].shrunk

\* C24: (1) a file missing at priming gets cursor 0; (2) a follow visit that
\* finds the file missing changes no cursor and the task goes on; (3) for a
\* file that was missing at priming, everything below the cursor has been
\* handed to the sink once, from offset 0 on; (4) the task has ended only if
\* it was cancelled; (5) once such a file is there with content, the cursor
\* and the bytes forwarded reach the end of the file, unless the session
\* ends first.
C24_MissingFileFollowed ==
    /\ [](/\ tail.last.kind = "prime_missing" =>
                tail.offsets[tail.last.file] = 0 /\ tail.last.file \in tail.missing
          /\ tail.last.kind = "follow_missing" =>
                /\ tail.offsets[tail.last.file] = tail.last.cursor
                /\ tail.pc \in {"follow", "sleep"} \/ tail.cancelReq
          /\ \A f \in LogNames : CameLate(f) =>
                /\ tail.sent[f] = tail.offsets[f]
                /\ tail.offsets[f] <= Len(logs[f].data)
          /\ tail.pc = "cancelled" => tail.cancelReq)
    /\ \A f \in LogNames :
          (CameLate(f) /\ Following /\ logs[f].data # <<>>)
              ~> (\/ tail.sent[f] = Len(logs[f].data) /\ tail.offsets[f] = Len(logs[f].data)
                  \/ logs[f].shrunk
                  \/ tail.cancelReq)

\* a file that was missing at priming appeared and the follow loop read its
\* first byte from offset 0
C24_Witness ==
    /\ tail.last.kind = "follow"
    /\ CameLate(tail.last.file)
    /\ tail.last.cursor = 0
    /\ Len(tail.last.chunk) = 1
    /\ tail.sent[tail.last.file] = 1

\* ───────────────────────────── properties of run_rcon_ui ─────────────────────────────
\* a task is over
TaskOver(state) == state \in {"done", "cancelled"}

\* C25: once the application has ended (normally or by an exception), both
\* tasks have been asked to cancel unless already over; when run_rcon_ui has
\* returned, the tailer has ended by cancellation and the probe is over
\* (cancelled, or finished before), whether or not the probe's worker thread
\* has returned; and after the application has ended run_rcon_ui does return.
C25_TasksOverAtReturn ==
    /\ [](ui.main # "app" =>
            /\ tail.cancelReq
            /\ ui.probe = "done" \/ ui.probeCancelReq)
    /\ [](ui.main = "returned" =>
            /\ tail.pc = "cancelled"
            /\ TaskOver(ui.probe)
            /\ ui.probe = "cancelled" => ui.probeCancelReq)
    /\ (ui.main # "app") ~> (ui.main = "returned")

\* the session ended by an exception while the probe waited for its worker
\* thread; run_rcon_ui has returned and the thread is still running
C25_Witness ==
    /\ ui.main = "returned"
    /\ ui.how = "exception"
    /\ ui.probe = "cancelled"
    /\ ui.thread = "running"
    /\ tail.pc = "cancelled"
    /\ tail.last.kind # "none"

\* ───────────────────────────── properties of _append ─────────────────────────────
\* C26: after an _append call the retained text is at most LogTrimLimit
\* characters long and is a suffix of the text retained before followed by
\* the appended text: the whole of it when that fits, else its last
\* LogTrimLimit characters.
C26_ViewKeepsNewestSuffix ==
    [][LET whole == view.text \o view'.last
           n == Len(whole)
       IN /\ Len(view'.text) <= LogTrimLimit
          /\ \E k \in 0..n : view'.text = SubSeq(whole, k + 1, n)
          /\ Len(view'.text) = IF n > LogTrimLimit THEN LogTrimLimit ELSE n]_vars

\* a text longer than the limit was appended and only its newest characters
\* were kept
C26_Witness ==
    /\ Len(view.last) = LogTrimLimit + 1
    /\ Len(view.text) = LogTrimLimit
    /\ view.text = SubSeq(view.last, 2, LogTrimLimit + 1)
    /\ view.last[1] # view.last[2]

\* ───────────────────────────── properties of start, stats and _find_jar ─────────────────────────────
\* a start (or the start of a restart) that took the launch script
ScriptStart(c) == call[c].op \in {"start", "restart"} /\ call[c].path = "script"

C28_SameVerdictAsRunning ==
    \A c \in SeqCallers : pc[c] = "done" =>
        /\ call[c].op \in {"running", "stats"} =>
              (call[c].outcome = "true" <=> call[c].stAtCheck = "live")
        /\ call[c].op = "start" =>
              (call[c].outcome = "Already running." <=> call[c].stAtCheck = "live")
        /\ (call[c].op = "stop" /\ call[c].force /\ platform = "posix") =>
              (Sig("KILL", "pid") \in {call[c].sigs[i] : i \in 1..Len(call[c].sigs)}
                  <=> call[c].graceLive)

\* the answer the preference order asks for among the eligible names e when
\* no Fabric launcher is there: forge-, neoforge-, minecraft_server, server,
\* then whatever comes first ("Forge-1.jar" sorts before "paper.jar" and
\* starts with no preferred prefix)
Preferred(e) ==
    IF ForgeJar \in e THEN ForgeJar
    ELSE IF Forge11Jar \in e THEN Forge11Jar
    ELSE IF NeoforgeJar \in e THEN NeoforgeJar
    ELSE IF MinecraftServerJar \in e THEN MinecraftServerJar
    ELSE IF ServerJar \in e THEN ServerJar
    ELSE IF CapForgeJar \in e THEN CapForgeJar
    ELSE IF PaperJar \in e THEN PaperJar
    ELSE NoJar

\* C29: the answer of _find_jar is never a name that contains "install" and
\* is always none or an eligible jar of the directory; it is a Fabric
\* launcher jar when one is there; otherwise the first jar in sorted order
\* with the earliest preferred prefix, otherwise the first eligible jar; it
\* is none exactly when the directory holds no eligible jar.
C29_JarSelection ==
    picked.called =>
        LET elig == files \cap EligibleJars
            j == picked.jar
        IN /\ j # NoJar => j \in elig /\ ~Contains(Lower(j), <<"i", "n", "s", "t", "a", "l", "l">>)
           /\ FabricLaunchJar \in files => j = FabricLaunchJar
           /\ (FabricLauncherJar \in files /\ FabricLaunchJar \notin files) => j = FabricLauncherJar
           /\ (FabricLauncherJar \notin files /\ FabricLaunchJar \notin files) => j = Preferred(elig)
           /\ j = NoJar <=> elig = {}

\* two forge jars, a server jar, an installer and a shim, no Fabric launcher:
\* the first forge jar in sorted order is the answer
C29_Witness ==
    /\ picked.called
    /\ {ForgeJar, Forge11Jar, ServerJar, PaperJar, ForgeInstallerJar, ServerShimJar} \subseteq files
    /\ FabricLaunchJar \notin files /\ FabricLauncherJar \notin files
    /\ picked.jar = ForgeJar

\* the call of c has spawned a process
HasSpawned(c) == call[c].op = "start" /\ call[c].spawnN > 0

\* the process spawned by the call of c, and the worker its launcher forked
SpawnTree(c) == {call[c].procPid} \cup ({procs[call[c].procPid].child} \ {NoPid})

\* C30: the liveness check is the only thing between a start call and its
\* spawn: a call spawns whenever its own check found no PID file naming a
\* running process, whatever another call is doing; a call on the direct
\* path records its process before it returns; and when two calls have both
\* spawned, their processes are different and the PID file names a process
\* of at most one of them.
C30_PidfileNamesOneStart ==
    /\ \A c \in Callers :
          /\ HasSpawned(c) => call[c].stAtCheck # "live"
          /\ (HasSpawned(c) /\ call[c].path = "jar" /\ pc[c] \in {"jar_sleep", "done"}) => call[c].wrote
    /\ (HasSpawned(1) /\ HasSpawned(2)) =>
          /\ SpawnTree(1) \cap SpawnTree(2) = {}
          /\ Cardinality({c \in Callers : pidfile \in SpawnTree(c)}) <= 1

\* two overlapping start calls both found no PID file, both spawned a java
\* process and both returned "Started."; both processes run and the PID file
\* names the second only
C30_Witness ==
    /\ \A c \in Callers :
          /\ pc[c] = "done" /\ HasSpawned(c) /\ call[c].spawnN = 1
          /\ call[c].pidAtCheck = NoPid
          /\ call[c].outcome = "Started."
          /\ ProcIsRunning(call[c].procPid)
    /\ call[1].procPid # call[2].procPid
    /\ pidfile = call[2].procPid

\* C31 as stated: on the launch-script path (start.sh), the supervisor's write
\* of the launcher's identifier never lands on the worker's identifier that
\* the launch script has already written, and when start returns "Started."
\* the PID file names the worker and the worker is alive.
C31_SupervisorKeepsWorkerPid ==
    \A c \in SeqCallers : (ScriptStart(c) /\ platform = "posix") =>
        /\ ~call[c].overWorker
        /\ (pc[c] = "done" /\ call[c].outcome = "Started.") =>
              /\ call[c].pidAtRet # NoPid
              /\ procs[call[c].pidAtRet].kind \in {"java", "shell"}
              /\ call[c].retSt = "live"

\* C32 as stated: over priming and following together, no byte of a log file
\* that was only appended to is handed to the sink more than once.
C32_ForwardedAtMostOnce ==
    \A f \in LogNames : ~logs[f].shrunk =>
        \A k \in 1..Len(logs[f].seen) : logs[f].seen[k] <= 1

\* ───────────────────────────── create_server ─────────────────────────────
\* The fractions of create_server's Progress are kept in hundredths: every
\* weight it names is a whole number of hundredths, so sums and differences
\* are exact here, and the floating-point sums of the code round to the same
\* percentages.

\* the flavors create_server installs, and one it does not know
Flavors == {"vanilla", "fabric", "forge", "neoforge"}
FlavorArgs == Flavors \cup {"paper"}

\* detect_pack_from_bytes: the loader of the pack, or None
Loaders == {"none", "fabric", "forge", "neoforge"}

\* the chunks download_stream reads at most, and the Content-Length values
MaxBody == 3
Lengths == 0..MaxBody

\* max(0.0, min(1.0, weight)), in hundredths
ClampWhole(x) == IF x > 100 THEN 100 ELSE IF x < 0 THEN 0 ELSE x

\* emit with ratio num / den:
\* int(round((self.base + self.weight * max(0.0, min(1.0, ratio))) * 100))
SetupPct(base, weight, num, den) ==
    LET r == IF num > den THEN den ELSE IF num < 0 THEN 0 ELSE num
    IN  PyRound(base * den + weight * r, den)

\* if self.say: self.say(f"{pct}% {msg}"), and tell("100% Done.")
Tell(s, pct) == IF s.say THEN [s EXCEPT !.sent = Append(@, pct)] ELSE s

\* p.start(weight, msg): every start of create_server gives a message
StageStart(s, w) ==
    LET t == [s EXCEPT !.weight = ClampWhole(w),
                       !.tops = Append(@, s.base + ClampWhole(w))]
    IN  Tell(t, SetupPct(t.base, t.weight, 0, 1))

\* p.end(msg): every end of create_server gives a message
StageEnd(s) ==
    LET b == IF s.base + s.weight > 100 THEN 100 ELSE s.base + s.weight
    IN  Tell([s EXCEPT !.base = b, !.weight = 0], b)

\* mutant of the stage weights: the vanilla download takes 0.60
StageWeightHeavy(stage) ==
    CASE stage = "prepare"   -> 5
      [] stage = "fetch"     -> 25
      [] stage = "extract"   -> 15
      [] stage = "launcher"  -> 10
      [] stage = "vanilla"   -> 60
      [] stage = "installer" -> 10
      [] stage = "install"   -> 25
      [] stage = "scripts"   -> 10

\* the weights create_server gives to its stages
StageWeight(stage) ==
    CASE stage = "prepare"   -> 5
      [] stage = "fetch"     -> 25
      [] stage = "extract"   -> 15
      [] stage = "launcher"  -> 10
      [] stage = "vanilla"   -> 40
      [] stage = "installer" -> 10
      [] stage = "install"   -> 25
      [] stage = "scripts"   -> 10

\* p.start(1.0 - p.base, "Finalizing…"); p.end("Finished setup.");
\* tell("100% Done."); return str(dir)
Finalize(s) ==
    [Tell(StageEnd(StageStart(s, 100 - s.base)), 100) EXCEPT !.pc = "returned"]

\* installers.py neither defines nor imports make_scripts_invoke_runner: the
\* calls raise NameError
InvokeRunnerDefined == FALSE

\* create_server(name, flavor, ..., curseforge_server_zip_url, say=say):
\* p = Progress(say); p.start(0.05, 'Preparing …')
CreateBegin ==
    /\ setup.pc = "idle"
    /\ \E say \in BOOLEAN, pack \in BOOLEAN, flavor \in FlavorArgs :
        setup' = [StageStart([SetupNew EXCEPT !.say = say, !.pack = pack,
                                              !.flavor = flavor],
                             StageWeight("prepare"))
                  EXCEPT !.pc = "prepare"]
    /\ UNCHANGED <<supVars, rcon, prog, uiVars, picked>>

\* the version is looked up and the properties are written: p.end; with a
\* pack, p.start(0.25, "Fetching server pack…")
CreatePrepared ==
    /\ setup.pc = "prepare"
    /\ setup' = IF setup.pack
                THEN [StageStart(StageEnd(setup), StageWeight("fetch"))
                      EXCEPT !.pc = "fetch"]
                ELSE [StageEnd(setup) EXCEPT !.pc = "flavor", !.branch = "nopack"]
    /\ UNCHANGED <<supVars, rcon, prog, uiVars, picked>>

\* the pack is read: p.end, p.start(0.15, "Extracting server pack…"),
\* extractall, p.end; then find_runnable_after_extract decides the branch
CreateExtracted ==
    /\ setup.pc = "fetch"
    /\ \E runner \in {"run.sh", "start.sh", "none"}, jar \in BOOLEAN,
          loader \in Loaders :
        LET s == StageEnd(StageStart(StageEnd(setup), StageWeight("extract")))
        IN  setup' =
              IF runner = "run.sh"
              THEN [StageStart(s, StageWeight("launcher"))
                    EXCEPT !.pc = IF InvokeRunnerDefined THEN "launcher" ELSE "raised",
                           !.branch = "runner"]
              ELSE IF jar
              THEN [StageStart(s, StageWeight("launcher"))
                    EXCEPT !.pc = "launcher", !.branch = "jar"]
              ELSE [s EXCEPT !.pc = "flavor", !.branch = "installer",
                             !.flavor = IF loader # "none" THEN loader ELSE @]
    /\ UNCHANGED <<supVars, rcon, prog, uiVars, picked>>

\* the launch scripts are written: p.end("Launch scripts ready."), the
\* final stage, return
CreateLaunchReady ==
    /\ setup.pc = "launcher"
    /\ setup' = Finalize(StageEnd(setup))
    /\ UNCHANGED <<supVars, rcon, prog, uiVars, picked>>

\* the installer path: the download of the flavor starts, or RuntimeError
\* for a flavor that is not known; the response carries its Content-Length
CreateFlavor ==
    /\ setup.pc = "flavor"
    /\ \E total \in Lengths :
        setup' =
          IF setup.flavor \notin Flavors THEN [setup EXCEPT !.pc = "raised"]
          ELSE [StageStart(setup, IF setup.flavor = "vanilla"
                                  THEN StageWeight("vanilla")
                                  ELSE StageWeight("installer"))
                EXCEPT !.pc = "download", !.total = total, !.seen = 0]
    /\ UNCHANGED <<supVars, rcon, prog, uiVars, picked>>

\* download_stream: one chunk is read and written;
\* if total and prog: prog.emit(seen / total, ...)
DownloadChunk ==
    /\ setup.pc = "download"
    /\ setup.seen < MaxBody
    /\ LET s == [setup EXCEPT !.seen = @ + 1]
       IN  setup' = IF s.total # 0
                    THEN Tell(s, SetupPct(s.base, s.weight, s.seen, s.total))
                    ELSE s
    /\ UNCHANGED <<supVars, rcon, prog, uiVars, picked>>

\* download_stream: the read returns nothing, the download is over: p.end;
\* but for vanilla, p.start(0.25, "Running … installer…")
DownloadEnd ==
    /\ setup.pc = "download"
    /\ setup' = IF setup.flavor = "vanilla"
                THEN [StageEnd(setup) EXCEPT !.pc = "scripts"]
                ELSE [StageStart(StageEnd(setup), StageWeight("install"))
                      EXCEPT !.pc = "install"]
    /\ UNCHANGED <<supVars, rcon, prog, uiVars, picked>>

\* subprocess.run of the installer is over: RuntimeError for a return code
\* other than 0, else p.end; forge and neoforge call
\* make_scripts_invoke_runner when the installer left run.sh or run.bat
InstallerExit ==
    /\ setup.pc = "install"
    /\ \E ok \in BOOLEAN, runner \in BOOLEAN :
        setup' =
          IF ~ok THEN [setup EXCEPT !.pc = "raised"]
          ELSE IF setup.flavor # "fabric" /\ runner /\ ~InvokeRunnerDefined
          THEN [StageEnd(setup) EXCEPT !.pc = "raised"]
          ELSE [StageEnd(setup) EXCEPT !.pc = "scripts"]
    /\ UNCHANGED <<supVars, rcon, prog, uiVars, picked>>

\* if not (dir / "start.sh").exists(): p.start(0.10), make_scripts, p.end;
\* then the final stage, return
CreateScripts ==
    /\ setup.pc = "scripts"
    /\ \E startSh \in BOOLEAN :
        setup' = IF startSh THEN Finalize(setup)
                 ELSE Finalize(StageEnd(StageStart(setup, StageWeight("scripts"))))
    /\ UNCHANGED <<supVars, rcon, prog, uiVars, picked>>

CreateNext ==
    \/ CreateBegin
    \/ CreatePrepared
    \/ CreateExtracted
    \/ CreateLaunchReady
    \/ CreateFlavor
    \/ DownloadChunk
    \/ DownloadEnd
    \/ InstallerExit
    \/ CreateScripts

CreateInit ==
    /\ SupIdle
    /\ rcon = RconIdle
    /\ prog = ProgIdle
    /\ UiIdle
    /\ picked = NoPick
    /\ setup = SetupIdle

SpecCreate == CreateInit /\ [][CreateNext]_vars

====
